---- MODULE Spec2Model ----
(***************************************************************************)
(* A model of the path tracer of raytracing-in-one-weekend (Rust).         *)
(*                                                                         *)
(* The module holds several state machines over one set of variables:      *)
(*   Spec         the parallel tile scheduler of RaytracerState            *)
(*                (src/raytracer/src/main.rs), workers and coordinator;    *)
(*   SpecNoFault  the same scheduler restricted to runs without            *)
(*                cancellation and without panics, with worker fairness;   *)
(*   SpecPixel    the per-pixel colour post-processing of a worker;        *)
(*   SpecColor    the recursive integrator Camera::ray_color;              *)
(*   SpecBvh      BvhNode::new / BvhNode::hit against HittableList::hit.   *)
(* Each specification leaves the variables of the others at their idle     *)
(* values.                                                                 *)
(***************************************************************************)
EXTENDS Integers, Sequences, FiniteSets, Bags, TLC

VARIABLES
    \* ---- scheduler (main.rs, RaytracerState) ----
    params,             \* RaytracerParams: the fields the scheduler reads
    workblocks,         \* Arc<Mutex<Vec<WorkBlock>>>: the shared work stack
    poisoned,           \* whether the mutex of workblocks is poisoned
    total_workblocks,   \* RaytracerState::total_workblocks
    workblocks_done,    \* RaytracerState::workblocks_done (AtomicI32)
    cancel_token,       \* RaytracerState::cancel_token (AtomicBool)
    wpc,                \* position of each worker thread in its loop
    this_work_pkg,      \* the block each worker popped and holds
    pops_since_cancel,  \* history: pops each worker made with the flag set
    tx_sent,            \* bag of the pixel coordinates sent over the channel
    main_pc,            \* position of the coordinating thread
    is_finished,        \* local of raytracing_finished(), its return value
    process,            \* "running", "dropped" (joined) or "aborted"
    joined,             \* drop(): the workers whose join() has returned
    \* ---- pixel post-processing (main.rs, worker closure) ----
    px_phase, px_spp, pixel_color, px_out,
    \* ---- integrator (camera.rs, ray_color) ----
    rc_stack, rc_ret, rc_max_depth, rc_hits, rc_last,
    \* ---- BVH (bvh.rs, hittable_list.rs) ----
    bv_phase, bv_list, bv_ray, bv_tmin, bv_tmax, bv_tree, bv_hit, bv_list_hit,
    bv_calls,           \* the queries BvhNode::hit of the root made of its children
    bv_stack,           \* the calls of BvhNode::new in progress, outermost first
    \* ---- calls of the pure functions (aabb3.rs, math crate) ----
    fn_name,            \* the function called, "" when none
    fn_args,            \* its arguments
    fn_ret              \* <<>> before the call returns, <<value>> after

schedVars == <<params, workblocks, poisoned, total_workblocks, workblocks_done,
               cancel_token, wpc, this_work_pkg, pops_since_cancel, tx_sent,
               main_pc, is_finished, process, joined>>
pixelVars == <<px_phase, px_spp, pixel_color, px_out>>
colorVars == <<rc_stack, rc_ret, rc_max_depth, rc_hits, rc_last>>
bvhVars == <<bv_phase, bv_list, bv_ray, bv_tmin, bv_tmax, bv_tree, bv_hit, bv_list_hit,
             bv_calls, bv_stack>>
mathVars == <<fn_name, fn_args, fn_ret>>
vars == <<schedVars, pixelVars, colorVars, bvhVars, mathVars>>

(***************************************************************************)
(* Bounds of the model.                                                    *)
(***************************************************************************)
MaxImageWidth == 2
MaxImageHeight == 2
MaxBlockPixels == 2
MaxWorkers == 2
\* work stacks longer than this are modelled unshuffled only
MaxShuffleLen == 4

(***************************************************************************)
(* Generic helpers.                                                        *)
(***************************************************************************)
Range(s) == {s[i] : i \in DOMAIN s}

Min2(a, b) == IF a < b THEN a ELSE b

RECURSIVE PermsOf(_)
\* all orders of the sequence s (the outcomes of slice::shuffle)
PermsOf(s) ==
    IF Len(s) <= 1 THEN {s}
    ELSE UNION {{<<s[i]>> \o p :
                    p \in PermsOf(SubSeq(s, 1, i - 1) \o SubSeq(s, i + 1, Len(s)))} :
                i \in 1..Len(s)}

(***************************************************************************)
(* SCHEDULER: RaytracerState::new, the worker closure, and the             *)
(* coordinating thread's raytracing_finished / cancel_work / drop.         *)
(***************************************************************************)
NoBlock == [xdim |-> <<-1, -1>>, ydim |-> <<-1, -1>>]

BlocksAlong_noRemainder(dim, block_pixels) == dim \div block_pixels

\* main.rs:1265-1266  blocks_x = (image_width / worker_block_pixels) + 1
BlocksAlong(dim, block_pixels) == (dim \div block_pixels) + 1

\* main.rs:1272-1279  (blk * B).min(dim), ((blk + 1) * B).min(dim)
BlockDim(blk, block_pixels, dim) ==
    <<Min2(blk * block_pixels, dim), Min2((blk + 1) * block_pixels, dim)>>

\* main.rs:1268-1282  the work blocks in push order (rows of yblk, then xblk)
MakeWorkBlocks(w, h, b) ==
    LET blocks_x == BlocksAlong(w, b)
        blocks_y == BlocksAlong(h, b)
    IN  [i \in 1..(blocks_x * blocks_y) |->
            [xdim |-> BlockDim((i - 1) % blocks_x, b, w),
             ydim |-> BlockDim((i - 1) \div blocks_x, b, h)]]

\* main.rs:1284-1286  workblocks.shuffle(..) when params.shuffle_workblocks
QueueOrders(blocks, shuffle) ==
    IF shuffle THEN PermsOf(blocks) ELSE {blocks}

\* main.rs:1353-1357  the pixels of a block in the order the worker visits them:
\* y from ydim.1 - 1 down to ydim.0, x from xdim.0 up to xdim.1 - 1
BlockPixels(blk) ==
    LET nx == IF blk.xdim[2] > blk.xdim[1] THEN blk.xdim[2] - blk.xdim[1] ELSE 0
        ny == IF blk.ydim[2] > blk.ydim[1] THEN blk.ydim[2] - blk.ydim[1] ELSE 0
    IN  [i \in 1..(nx * ny) |->
            <<blk.xdim[1] + ((i - 1) % nx), blk.ydim[2] - 1 - ((i - 1) \div nx)>>]

\* main.rs:1390-1395  tx.send of the first k pixels of a block
SendPixels(bag, blk, k) ==
    bag (+) SetToBag({BlockPixels(blk)[i] : i \in 1..k})

CancelSeen_never(token) == FALSE

\* main.rs:1338  if cancel_token.load(SeqCst) { break }
CancelSeen(token) == token

VecPopRest_peek(q) == q

\* main.rs:1345  work_queue.pop(): Vec::pop removes the LAST element
VecPopRest(q) == SubSeq(q, 1, Len(q) - 1)

VecPopItem(q) == q[Len(q)]

\* ---- worker loop, main.rs:1337-1407 ----

\* main.rs:1338-1341
CheckCancel(w) ==
    /\ w \in DOMAIN wpc
    /\ process = "running"
    /\ UNCHANGED <<pixelVars, colorVars, bvhVars, mathVars>>
    /\ wpc[w] = "check"
    /\ wpc' = [wpc EXCEPT ![w] = IF CancelSeen(cancel_token) THEN "cancelled" ELSE "pop"]
    /\ UNCHANGED <<params, workblocks, poisoned, total_workblocks, workblocks_done,
                   cancel_token, this_work_pkg, pops_since_cancel, tx_sent, main_pc,
                   is_finished, process,
                   joined>>

\* main.rs:1344-1350 and 1400-1406: lock, pop one block; None (empty stack, or a
\* poisoned mutex) makes the worker leave its loop
PopWork(w) ==
    /\ w \in DOMAIN wpc
    /\ process = "running"
    /\ UNCHANGED <<pixelVars, colorVars, bvhVars, mathVars>>
    /\ wpc[w] = "pop"
    /\ IF ~poisoned /\ Len(workblocks) > 0
       THEN /\ this_work_pkg' = [this_work_pkg EXCEPT ![w] = VecPopItem(workblocks)]
            /\ workblocks' = VecPopRest(workblocks)
            /\ wpc' = [wpc EXCEPT ![w] = "render"]
            /\ pops_since_cancel' =
                   [pops_since_cancel EXCEPT ![w] = @ + (IF cancel_token THEN 1 ELSE 0)]
       ELSE /\ wpc' = [wpc EXCEPT ![w] = "quit"]
            /\ UNCHANGED <<this_work_pkg, workblocks, pops_since_cancel>>
    /\ UNCHANGED <<params, poisoned, total_workblocks, workblocks_done, cancel_token,
                   tx_sent, main_pc, is_finished, process,
                   joined>>

\* main.rs:1353-1397: every pixel of the block is traced and sent
RenderBlock(w) ==
    /\ w \in DOMAIN wpc
    /\ process = "running"
    /\ UNCHANGED <<pixelVars, colorVars, bvhVars, mathVars>>
    /\ wpc[w] = "render"
    /\ tx_sent' = SendPixels(tx_sent, this_work_pkg[w], Len(BlockPixels(this_work_pkg[w])))
    /\ wpc' = [wpc EXCEPT ![w] = "count"]
    /\ UNCHANGED <<params, workblocks, poisoned, total_workblocks, workblocks_done,
                   cancel_token, this_work_pkg, pops_since_cancel, main_pc,
                   is_finished, process,
                   joined>>

\* main.rs:1360-1361: raytrace_pixel panics at some pixel of the block (for
\* example HittableList::random on an empty lights list, hittable_list.rs:71-75);
\* the pixels before it were sent, the thread unwinds outside the mutex guard
PanicInBlock(w) ==
    /\ w \in DOMAIN wpc
    /\ process = "running"
    /\ UNCHANGED <<pixelVars, colorVars, bvhVars, mathVars>>
    /\ wpc[w] = "render"
    /\ \E k \in 0..(Len(BlockPixels(this_work_pkg[w])) - 1) :
          tx_sent' = SendPixels(tx_sent, this_work_pkg[w], k)
    /\ wpc' = [wpc EXCEPT ![w] = "panicked"]
    /\ UNCHANGED <<params, workblocks, poisoned, total_workblocks, workblocks_done,
                   cancel_token, this_work_pkg, pops_since_cancel, main_pc,
                   is_finished, process,
                   joined>>

\* main.rs:1399  workblocks_done.fetch_add(1, SeqCst)
CountBlock(w) ==
    /\ w \in DOMAIN wpc
    /\ process = "running"
    /\ UNCHANGED <<pixelVars, colorVars, bvhVars, mathVars>>
    /\ wpc[w] = "count"
    /\ workblocks_done' = workblocks_done + 1
    /\ this_work_pkg' = [this_work_pkg EXCEPT ![w] = NoBlock]
    /\ wpc' = [wpc EXCEPT ![w] = "check"]
    /\ UNCHANGED <<params, workblocks, poisoned, total_workblocks, cancel_token,
                   pops_since_cancel, tx_sent, main_pc, is_finished, process,
                   joined>>

\* one step of worker w that is not a panic
WorkerStep(w) == CheckCancel(w) \/ PopWork(w) \/ RenderBlock(w) \/ CountBlock(w)

\* ---- coordinating thread ----

\* main.rs:1439-1442: the first load, is_finished = workblocks_done > total
RfLoadFirst ==
    /\ process = "running"
    /\ UNCHANGED <<pixelVars, colorVars, bvhVars, mathVars>>
    /\ main_pc = "idle"
    /\ is_finished' = (workblocks_done > total_workblocks)
    /\ main_pc' = "rf_second"
    /\ UNCHANGED <<params, workblocks, poisoned, total_workblocks, workblocks_done,
                   cancel_token, wpc, this_work_pkg, pops_since_cancel, tx_sent, process,
                   joined>>

SecondLoad_noIncrement(done, total) == done

\* main.rs:1444-1451: the counter after the second load, which adds 1 to it
\* when it reads total_workblocks
SecondLoad(done, total) == IF done = total THEN done + 1 ELSE done

\* main.rs:1444-1453: the second load; when it reads total_workblocks the counter
\* is incremented once more (no worker can change it in between: every block is
\* counted), and is_finished is returned
RfLoadSecond ==
    /\ process = "running"
    /\ UNCHANGED <<pixelVars, colorVars, bvhVars, mathVars>>
    /\ main_pc = "rf_second"
    /\ workblocks_done' = SecondLoad(workblocks_done, total_workblocks)
    /\ main_pc' = "idle"
    /\ UNCHANGED <<params, workblocks, poisoned, total_workblocks, cancel_token, wpc,
                   this_work_pkg, pops_since_cancel, tx_sent, is_finished, process,
                   joined>>

\* main.rs:1456-1459
CancelWork ==
    /\ process = "running"
    /\ UNCHANGED <<pixelVars, colorVars, bvhVars, mathVars>>
    /\ main_pc = "idle"
    /\ cancel_token' = TRUE
    /\ UNCHANGED <<params, workblocks, poisoned, total_workblocks, workblocks_done, wpc,
                   this_work_pkg, pops_since_cancel, tx_sent, main_pc, is_finished,
                   process,
                   joined>>

WorkerEnded(w) == wpc[w] \in {"quit", "cancelled", "panicked"}

\* main.rs:1231-1233  drop(): the handles are taken out of self.workers
DropState ==
    /\ process = "running"
    /\ UNCHANGED <<pixelVars, colorVars, bvhVars, mathVars>>
    /\ main_pc = "idle"
    /\ main_pc' = "join"
    /\ process' = IF params.workers = 0 THEN "dropped" ELSE "running"
    /\ UNCHANGED <<params, workblocks, poisoned, total_workblocks, workblocks_done,
                   cancel_token, wpc, this_work_pkg, pops_since_cancel, tx_sent,
                   is_finished, joined>>

\* main.rs:1234-1236  the handles are joined one after the other, in spawn
\* order: join() returns once that worker has ended, whatever the later
\* workers are doing, and expect("Failed to join worker!") panics in the main
\* thread when the worker had panicked
JoinWorker ==
    /\ process = "running"
    /\ UNCHANGED <<pixelVars, colorVars, bvhVars, mathVars>>
    /\ main_pc = "join"
    /\ joined < params.workers
    /\ WorkerEnded(joined + 1)
    /\ IF wpc[joined + 1] = "panicked"
       THEN /\ process' = "aborted"
            /\ UNCHANGED joined
       ELSE /\ joined' = joined + 1
            /\ process' = IF joined' = params.workers THEN "dropped" ELSE "running"
    /\ UNCHANGED <<params, workblocks, poisoned, total_workblocks, workblocks_done,
                   cancel_token, wpc, this_work_pkg, pops_since_cancel, tx_sent,
                   main_pc, is_finished>>

\* ---- idle values of each component ----
SchedIdle ==
    /\ params = [workers |-> 0, worker_block_pixels |-> 1, image_width |-> 0,
                 image_height |-> 0, shuffle_workblocks |-> FALSE]
    /\ workblocks = <<>>
    /\ poisoned = FALSE
    /\ total_workblocks = 0
    /\ workblocks_done = 0
    /\ cancel_token = FALSE
    /\ wpc = <<>>
    /\ this_work_pkg = <<>>
    /\ pops_since_cancel = <<>>
    /\ tx_sent = EmptyBag
    /\ main_pc = "off"
    /\ is_finished = FALSE
    /\ process = "off"
    /\ joined = 0

PixelIdle ==
    /\ px_phase = "off"
    /\ px_spp = 0
    /\ pixel_color = <<>>
    /\ px_out = <<>>

ColorIdle ==
    /\ rc_stack = <<>>
    /\ rc_ret = <<>>
    /\ rc_max_depth = 0
    /\ rc_hits = 0
    /\ rc_last = <<>>

BvhIdle ==
    /\ bv_phase = "off"
    /\ bv_list = <<>>
    /\ bv_ray = <<>>
    /\ bv_tmin = 0
    /\ bv_tmax = 0
    /\ bv_tree = <<>>
    /\ bv_hit = <<>>
    /\ bv_list_hit = <<>>
    /\ bv_calls = <<>>
    /\ bv_stack = <<>>

MathIdle ==
    /\ fn_name = ""
    /\ fn_args = <<>>
    /\ fn_ret = <<>>

\* main.rs:1248-1427  RaytracerState::new
SchedInit ==
    /\ params \in [workers : 0..MaxWorkers,
                   worker_block_pixels : 1..MaxBlockPixels,
                   image_width : 1..MaxImageWidth,
                   image_height : 1..MaxImageHeight,
                   shuffle_workblocks : BOOLEAN]
    /\ LET blocks == MakeWorkBlocks(params.image_width, params.image_height,
                                    params.worker_block_pixels)
       IN  /\ (params.shuffle_workblocks => Len(blocks) <= MaxShuffleLen)
           /\ workblocks \in QueueOrders(blocks, params.shuffle_workblocks)
           /\ total_workblocks = Len(blocks)
    /\ poisoned = FALSE
    /\ workblocks_done = 0
    /\ cancel_token = FALSE
    /\ wpc = [w \in 1..params.workers |-> "check"]
    /\ this_work_pkg = [w \in 1..params.workers |-> NoBlock]
    /\ pops_since_cancel = [w \in 1..params.workers |-> 0]
    /\ tx_sent = EmptyBag
    /\ main_pc = "idle"
    /\ is_finished = FALSE
    /\ process = "running"
    /\ joined = 0

Init == SchedInit /\ PixelIdle /\ ColorIdle /\ BvhIdle /\ MathIdle

Next ==
    \/ \E w \in 1..MaxWorkers : CheckCancel(w)
    \/ \E w \in 1..MaxWorkers : PopWork(w)
    \/ \E w \in 1..MaxWorkers : RenderBlock(w)
    \/ \E w \in 1..MaxWorkers : PanicInBlock(w)
    \/ \E w \in 1..MaxWorkers : CountBlock(w)
    \/ RfLoadFirst
    \/ RfLoadSecond
    \/ CancelWork
    \/ DropState
    \/ JoinWorker

Spec == Init /\ [][Next]_vars

\* runs without cancellation and without panics; every worker thread that can
\* take a step eventually does (OS threads are scheduled fairly)
NextNoFault ==
    \/ \E w \in 1..MaxWorkers : CheckCancel(w)
    \/ \E w \in 1..MaxWorkers : PopWork(w)
    \/ \E w \in 1..MaxWorkers : RenderBlock(w)
    \/ \E w \in 1..MaxWorkers : CountBlock(w)
    \/ RfLoadFirst
    \/ RfLoadSecond

SpecNoFault ==
    /\ Init
    /\ [][NextNoFault]_vars
    /\ \A w \in 1..MaxWorkers : WF_vars(WorkerStep(w))

(***************************************************************************)
(* Scheduler properties.                                                   *)
(***************************************************************************)
Running == process = "running"

\* the stack is empty and every worker left its loop through the "no more work"
\* branch (main.rs:1400-1406)
RenderComplete ==
    /\ params.workers >= 1
    /\ Len(workblocks) = 0
    /\ \A w \in DOMAIN wpc : wpc[w] = "quit"

HeldBlocks == {w \in DOMAIN wpc : this_work_pkg[w] # NoBlock}

\* the increments made by workers: the counter less the one increment that
\* raytracing_finished() adds once it has read total_workblocks
WorkerIncrements ==
    workblocks_done - (IF workblocks_done > total_workblocks THEN 1 ELSE 0)

\* every block has been popped, rendered and counted by a worker
AllBlocksCompleted ==
    /\ Len(workblocks) = 0
    /\ HeldBlocks = {}
    /\ WorkerIncrements = total_workblocks

\* C24: raytracing_finished() never returns true while some work block has
\* not been completed (so never in a cancelled render that left blocks
\* unprocessed); and once every block is completed it returns true on every
\* call after the first call that observes completion.  The value returned is
\* is_finished at the second load.  A call observes completion when its second
\* load reads total_workblocks: it leaves the counter above total_workblocks,
\* where the counter stays, and every call that starts with the counter there
\* returns true.
C24_FinishedOnlyWhenComplete ==
    /\ []((main_pc = "rf_second" /\ is_finished) => AllBlocksCompleted)
    /\ []((main_pc = "rf_second" /\ workblocks_done > total_workblocks)
              => is_finished)
    /\ [][(main_pc = "rf_second" /\ workblocks_done = total_workblocks
              /\ main_pc' = "idle") => workblocks_done' > total_workblocks]_vars
    /\ [][workblocks_done > total_workblocks
              => workblocks_done' = workblocks_done]_vars

\* a call that returns true, after an earlier call observed completion
C24_Witness ==
    /\ process = "running"
    /\ main_pc = "rf_second"
    /\ is_finished
    /\ workblocks_done = total_workblocks + 1
    /\ total_workblocks > 1

ImagePixels == (0..(params.image_width - 1)) \X (0..(params.image_height - 1))

InBlock(p, blk) ==
    /\ blk.xdim[1] <= p[1] /\ p[1] < blk.xdim[2]
    /\ blk.ydim[1] <= p[2] /\ p[2] < blk.ydim[2]

\* C2: at every point of a render the completed-block counter workblocks_done
\* is at most total_workblocks, under every interleaving of the workers with
\* raytracing_finished() and cancel_work().
C2_DoneAtMostTotal ==
    process # "off" => workblocks_done <= total_workblocks

\* C3: once cancel_work() has set the flag, a worker pops at most one more
\* block (the pop it had already decided on), and after that pop it never
\* reaches the pop again nor the "no more work" exit: it leaves at its next
\* check of the flag, however many blocks remain.
C3_AtMostOnePopAfterCancel ==
    \A w \in DOMAIN wpc :
        /\ pops_since_cancel[w] <= 1
        /\ (pops_since_cancel[w] = 1 => wpc[w] \notin {"pop", "quit"})

\* a worker popped one block after the flag was set, finished it and left on
\* the flag while blocks remain in the stack
C3_Witness ==
    /\ cancel_token
    /\ Len(workblocks) > 0
    /\ \E w \in DOMAIN wpc :
          /\ pops_since_cancel[w] = 1
          /\ wpc[w] = "cancelled"
          /\ this_work_pkg[w] = NoBlock

\* C4: if a worker panics while processing a block the whole render is aborted:
\* while the process is still running and a panicked worker's popped block is
\* never counted, no other worker pops a block, counts a block or leaves its
\* loop normally.
C4_PanicAbortsRender ==
    [][(Running /\ \E w \in DOMAIN wpc : wpc[w] = "panicked")
         => /\ workblocks' = workblocks
            /\ workblocks_done' = workblocks_done
            /\ \A v \in DOMAIN wpc : (wpc'[v] = "quit" => wpc[v] = "quit")]_vars

\* C5: every block of the stack is popped by at most one worker (no two workers
\* hold the same block, a held block is no longer in the stack), and the
\* workers' increments of the counter number exactly the blocks that left the
\* stack and are no longer held, i.e. the blocks fully processed.
C5_PopOnceCountOnce ==
    process # "off" =>
        /\ \A w \in DOMAIN wpc : \A v \in DOMAIN wpc :
              (w # v /\ this_work_pkg[w] # NoBlock)
                  => this_work_pkg[w] # this_work_pkg[v]
        /\ \A w \in HeldBlocks : this_work_pkg[w] \notin Range(workblocks)
        /\ WorkerIncrements
               = total_workblocks - Len(workblocks) - Cardinality(HeldBlocks)

\* two workers hold (distinct) blocks at the same time after a block was counted
C5_Witness ==
    /\ Cardinality(HeldBlocks) = 2
    /\ \A w \in HeldBlocks : wpc[w] = "render"
    /\ workblocks_done >= 1

\* C6: without cancellation and without panics, with at least one worker, the
\* render eventually reaches a state where the stack is empty, every worker has
\* left its loop and workblocks_done equals total_workblocks.
C6_RenderCompletes ==
    (params.workers >= 1)
        => <>(RenderComplete /\ workblocks_done = total_workblocks)

\* C7: the work blocks partition the image: each block lies inside
\* [0,W] x [0,H], every pixel of the image lies in exactly one block (stated of
\* the stack as built, before any block is popped), and a render that
\* completes has sent each pixel coordinate exactly once.
C7_BlocksPartitionImage ==
    process # "off" =>
        /\ (Len(workblocks) = total_workblocks) =>
              /\ \A i \in DOMAIN workblocks :
                    /\ 0 <= workblocks[i].xdim[1]
                    /\ workblocks[i].xdim[1] <= workblocks[i].xdim[2]
                    /\ workblocks[i].xdim[2] <= params.image_width
                    /\ 0 <= workblocks[i].ydim[1]
                    /\ workblocks[i].ydim[1] <= workblocks[i].ydim[2]
                    /\ workblocks[i].ydim[2] <= params.image_height
              /\ \A p \in ImagePixels :
                    Cardinality({i \in DOMAIN workblocks :
                                    InBlock(p, workblocks[i])}) = 1
        /\ RenderComplete =>
              /\ BagToSet(tx_sent) = ImagePixels
              /\ \A p \in ImagePixels : CopiesIn(p, tx_sent) = 1

\* a completed render of a 2x2 image cut into blocks of edge 2 (the block grid
\* then has an empty last row and column)
C7_Witness ==
    /\ RenderComplete
    /\ params.image_width = 2 /\ params.image_height = 2
    /\ params.worker_block_pixels = 2
    /\ BagToSet(tx_sent) = ImagePixels

(***************************************************************************)
(* PIXEL POST-PROCESSING: main.rs:1363-1388.                               *)
(*                                                                         *)
(* A Real (f32) is one of                                                  *)
(*   [k |-> "nan"]                     not a number                        *)
(*   [k |-> "inf",  s |-> 1 or -1]     an infinity                         *)
(*   [k |-> "zero", s |-> 1 or -1]     a signed zero                       *)
(*   [k |-> "sub",  s |-> 1 or -1]     a subnormal number                  *)
(*   [k |-> "norm", n |-> i], i # 0    the normal number i / FixOne        *)
(* The inputs are chosen so that every product and square root taken is    *)
(* exact in this representation, as it is in f32 for the same numbers.     *)
(***************************************************************************)
FixOne == 4 * 4

\* the accumulated channel values range over +-4^i / FixOne, i in 1..MaxMagnitudeExp
MaxMagnitudeExp == 4

RECURSIVE Pow4(_)
Pow4(i) == IF i = 0 THEN 1 ELSE 4 * Pow4(i - 1)

RECURSIVE ISqrtFrom(_, _)
ISqrtFrom(n, r) == IF (r + 1) * (r + 1) > n THEN r ELSE ISqrtFrom(n, r + 1)

\* the integer square root
ISqrt(n) == ISqrtFrom(n, 0)

FNaN == [k |-> "nan"]
FInf(s) == [k |-> "inf", s |-> s]
FZero(s) == [k |-> "zero", s |-> s]
FSub(s) == [k |-> "sub", s |-> s]
FNorm(n) == [k |-> "norm", n |-> n]

\* f32::is_normal: neither zero, infinite, subnormal nor NaN
IsNormal(x) == x.k = "norm"

\* f32::is_finite
IsFinite(x) == x.k \in {"zero", "sub", "norm"}

\* main.rs:1363  (params.samples_per_pixel as f32).recip(), for spp >= 1
RecipOfCount(spp) == FNorm(FixOne \div spp)

\* f32 product of two normal numbers
FMulNorm(x, g) ==
    LET q == (x.n * g.n) \div FixOne
    IN  IF q = 0 THEN FZero(IF (x.n < 0) = (g.n < 0) THEN 1 ELSE -1) ELSE FNorm(q)

\* f32::sqrt of a product (never subnormal here): NaN for a negative number and
\* for -inf, the zero itself for a zero
FSqrt(x) ==
    CASE x.k = "nan" -> FNaN
      [] x.k = "inf" -> IF x.s = 1 THEN FInf(1) ELSE FNaN
      [] x.k = "zero" -> x
      [] x.k = "norm" -> IF x.n < 0 THEN FNaN ELSE FNorm(ISqrt(x.n * FixOne))

\* x < y on f32 for y = c / FixOne a normal constant or zero; false for NaN
FLessConst(x, c) ==
    CASE x.k = "nan" -> FALSE
      [] x.k = "inf" -> x.s = -1
      [] x.k = "zero" -> 0 < c
      [] x.k = "sub" -> IF x.s = 1 THEN 0 < c ELSE 0 <= c
      [] x.k = "norm" -> x.n < c

FGreaterConst(x, c) ==
    CASE x.k = "nan" -> FALSE
      [] x.k = "inf" -> x.s = 1
      [] x.k = "zero" -> 0 > c
      [] x.k = "sub" -> IF x.s = 1 THEN 0 >= c ELSE 0 > c
      [] x.k = "norm" -> x.n > c

\* f32::clamp(0, 1): min if self < min, max if self > max, else self (NaN stays)
FClamp01(x) ==
    IF FLessConst(x, 0) THEN FZero(1)
    ELSE IF FGreaterConst(x, FixOne) THEN FNorm(FixOne)
    ELSE x

\* main.rs:1365-1367  (x * gamma_correct).sqrt().clamp(0, 1)
gamma_correct_fn(x, spp) == FClamp01(FSqrt(FMulNorm(x, RecipOfCount(spp))))

\* main.rs:1369  !x.is_normal()
check_invalid_pixel(x) == ~IsNormal(x)

\* main.rs:1371-1388  one channel of the colour that is sent
FinishChannel(x, spp) ==
    IF check_invalid_pixel(x) THEN FZero(1) ELSE gamma_correct_fn(x, spp)

Signs == {1, -1}
Channels == {"r", "g", "b"}

\* the values a channel of the accumulated colour may hold
ChannelInputs ==
    {FNaN} \cup {FInf(s) : s \in Signs} \cup {FZero(s) : s \in Signs}
           \cup {FSub(s) : s \in Signs}
           \cup {FNorm(s * Pow4(i)) : s \in Signs, i \in 1..MaxMagnitudeExp}

\* samples_per_pixel: the sample counts used (squares, as the sampler expects)
SampleCounts == {1, 4}

PixelInit ==
    /\ px_phase = "traced"
    /\ px_spp \in SampleCounts
    /\ pixel_color \in [Channels -> ChannelInputs]
    /\ px_out = <<>>

\* main.rs:1363-1395: the colour of one traced pixel is corrected and sent
SendPixel ==
    /\ px_phase = "traced"
    /\ px_out' = [c \in Channels |-> FinishChannel(pixel_color[c], px_spp)]
    /\ px_phase' = "sent"
    /\ UNCHANGED <<px_spp, pixel_color>>
    /\ UNCHANGED <<schedVars, colorVars, bvhVars, mathVars>>

InitPixel == SchedIdle /\ PixelInit /\ ColorIdle /\ BvhIdle /\ MathIdle

NextPixel == SendPixel

SpecPixel == InitPixel /\ [][NextPixel]_vars

\* C8: every channel value sent over the channel is finite and lies in [0,1],
\* and a non-finite accumulated value is replaced by exactly 0.
C8_SentChannelsFinite ==
    px_phase = "sent" =>
        \A c \in Channels :
            /\ IsFinite(px_out[c])
            /\ ~FLessConst(px_out[c], 0)
            /\ ~FGreaterConst(px_out[c], FixOne)
            /\ (~IsFinite(pixel_color[c]) => px_out[c].k = "zero")

(***************************************************************************)
(* INTEGRATOR: Camera::ray_color, camera.rs:205-261, as a machine with an  *)
(* explicit call stack.  One colour channel is modelled (the operators of  *)
(* Color act on each channel alike); a channel value is an exact rational  *)
(* <<numerator, denominator>>.  Material is an open trait                  *)
(* (material.rs:18-35): what emitted() and scatter() return at a hit is     *)
(* drawn from bounded sets.                                                *)
(***************************************************************************)
\* params.max_ray_depth ranges over -1..MaxRayDepth
MaxRayDepth == 3

RECURSIVE Gcd(_, _)
Gcd(a, b) == IF b = 0 THEN a ELSE Gcd(b, a % b)

Abs(a) == IF a < 0 THEN -a ELSE a

\* the rational n/d in lowest terms with a positive denominator
Rat(n, d) ==
    LET g == Gcd(Abs(n), Abs(d))
        sg == IF d < 0 THEN -1 ELSE 1
    IN  <<sg * (n \div g), sg * (d \div g)>>

RZero == <<0, 1>>
RAdd(a, b) == Rat(a[1] * b[2] + b[1] * a[2], a[2] * b[2])
RMul(a, b) == Rat(a[1] * b[1], a[2] * b[2])
RDiv(a, b) == Rat(a[1] * b[2], a[2] * b[1])

\* camera.rs:232-240: a mixture density closer to 0 than 1.0E-5 is replaced
\* by +-1.0E-4, keeping its sign
ClampPdfVal(pdf_val) ==
    IF Abs(pdf_val[1]) * 100000 < pdf_val[2]
    THEN (IF pdf_val[1] >= 0 THEN <<1, 10000>> ELSE <<-1, 10000>>)
    ELSE pdf_val

NextDepth_same(depth) == depth

\* camera.rs:221 and 250: the depth passed to the recursive call
NextDepth(depth) == depth - 1

SpecularColor_emitted(emitted, attenuation, child) ==
    RAdd(emitted, RMul(attenuation, child))

\* camera.rs:221  attenuation * ray_color(specular ray, depth - 1)
SpecularColor(emitted, attenuation, child) == RMul(attenuation, child)

\* camera.rs:242-252  emitted + attenuation * scattering_pdf * ray_color(..) / pdf_val
PdfColor(emitted, attenuation, spdf, child, pdf_val) ==
    RAdd(emitted, RDiv(RMul(RMul(attenuation, spdf), child), pdf_val))

\* params.background and Material::emitted: radiance values
RadianceValues == {RZero, <<1, 1>>}

\* material.rs:25-34  the emitted() a material inherits unless it overrides
\* it: black.  Isotropic, the material of the repository that returns a
\* SpecularRec (isotropic.rs:25-36), inherits it.
Material_emitted == RZero

\* attenuation of a SpecularRec
AttenuationValues == {<<1, 2>>, <<1, 1>>}

\* PdfRec scatter events: attenuation, Material::scattering_pdf of the drawn
\* direction, MixturePdf::value of the drawn direction
PdfEvents ==
    {[attenuation |-> <<1, 2>>, spdf |-> <<1, 4>>, pdf_val |-> <<1, 2>>],
     [attenuation |-> <<1, 1>>, spdf |-> <<1, 4>>, pdf_val |-> <<1, 4>>],
     [attenuation |-> <<1, 1>>, spdf |-> RZero, pdf_val |-> RZero],
     [attenuation |-> <<1, 2>>, spdf |-> RZero, pdf_val |-> <<-1, 1000000>>]}

Frame(depth, background) ==
    [depth |-> depth, background |-> background, stage |-> "call",
     emitted |-> RZero, attenuation |-> RZero, spdf |-> RZero, pdf_val |-> <<1, 1>>]

TopFrame == rc_stack[Len(rc_stack)]
PopFrame == SubSeq(rc_stack, 1, Len(rc_stack) - 1)

Finished(kind, f, hit, child, result) ==
    [kind |-> kind, depth |-> f.depth, hit |-> hit, emitted |-> f.emitted,
     attenuation |-> f.attenuation, child |-> child, result |-> result,
     background |-> f.background, stage |-> f.stage]

ColorInit ==
    /\ rc_max_depth \in (-1)..MaxRayDepth
    /\ \E bg \in RadianceValues : rc_stack = <<Frame(rc_max_depth, bg)>>
    /\ rc_ret = <<>>
    /\ rc_hits = 0
    /\ rc_last = <<>>

\* camera.rs:212-214: depth <= 0 returns black; the scene is not intersected
RcDepthExhausted ==
    /\ UNCHANGED <<schedVars, pixelVars, bvhVars, mathVars>>
    /\ Len(rc_stack) > 0 /\ rc_ret = <<>>
    /\ TopFrame.stage = "call"
    /\ TopFrame.depth <= 0
    /\ rc_ret' = <<RZero>>
    /\ rc_last' = Finished("exhausted", TopFrame, FALSE, RZero, RZero)
    /\ rc_stack' = PopFrame
    /\ UNCHANGED <<rc_max_depth, rc_hits>>

MissColor_black(background) == RZero

\* camera.rs:258-260  no hit: return background
MissColor(background) == background

\* camera.rs:255-257  no scatter: return emitted
AbsorbedColor(emitted) == emitted

\* camera.rs:216 and 258-260: world.hit finds nothing, the background is returned
RcMiss ==
    /\ UNCHANGED <<schedVars, pixelVars, bvhVars, mathVars>>
    /\ Len(rc_stack) > 0 /\ rc_ret = <<>>
    /\ TopFrame.stage = "call"
    /\ TopFrame.depth > 0
    /\ rc_hits' = rc_hits + 1
    /\ rc_ret' = <<MissColor(TopFrame.background)>>
    /\ rc_last' = Finished("miss", TopFrame, TRUE, RZero,
                           MissColor(TopFrame.background))
    /\ rc_stack' = PopFrame
    /\ UNCHANGED rc_max_depth

\* camera.rs:216-218 and 255-257: a hit whose material does not scatter
RcAbsorbed ==
    /\ UNCHANGED <<schedVars, pixelVars, bvhVars, mathVars>>
    /\ Len(rc_stack) > 0 /\ rc_ret = <<>>
    /\ TopFrame.stage = "call"
    /\ TopFrame.depth > 0
    /\ \E emitted \in RadianceValues :
          /\ rc_ret' = <<AbsorbedColor(emitted)>>
          /\ rc_last' = Finished("absorbed", [TopFrame EXCEPT !.emitted = emitted],
                                 TRUE, RZero, AbsorbedColor(emitted))
    /\ rc_hits' = rc_hits + 1
    /\ rc_stack' = PopFrame
    /\ UNCHANGED rc_max_depth

\* camera.rs:216-221: a hit whose material returns a SpecularRec; ray_color is
\* called for the specular ray.  emitted (camera.rs:217) is fetched from the
\* material, whatever it is, before scatter() is asked for a record.
RcScatterSpecular ==
    /\ UNCHANGED <<schedVars, pixelVars, bvhVars, mathVars>>
    /\ Len(rc_stack) > 0 /\ rc_ret = <<>>
    /\ TopFrame.stage = "call"
    /\ TopFrame.depth > 0
    /\ \E emitted \in RadianceValues, attenuation \in AttenuationValues :
          rc_stack' = PopFrame
              \o <<[TopFrame EXCEPT !.stage = "specular", !.emitted = emitted,
                                    !.attenuation = attenuation]>>
              \o <<Frame(NextDepth(TopFrame.depth), TopFrame.background)>>
    /\ rc_hits' = rc_hits + 1
    /\ UNCHANGED <<rc_ret, rc_max_depth, rc_last>>

\* camera.rs:216-218 and 223-251: a hit whose material returns a PdfRec; a
\* direction is drawn from the mixture and ray_color is called for it
RcScatterPdf ==
    /\ UNCHANGED <<schedVars, pixelVars, bvhVars, mathVars>>
    /\ Len(rc_stack) > 0 /\ rc_ret = <<>>
    /\ TopFrame.stage = "call"
    /\ TopFrame.depth > 0
    /\ \E emitted \in RadianceValues, ev \in PdfEvents :
          rc_stack' = PopFrame
              \o <<[TopFrame EXCEPT !.stage = "pdf", !.emitted = emitted,
                                    !.attenuation = ev.attenuation,
                                    !.spdf = ev.spdf,
                                    !.pdf_val = ClampPdfVal(ev.pdf_val)]>>
              \o <<Frame(NextDepth(TopFrame.depth), TopFrame.background)>>
    /\ rc_hits' = rc_hits + 1
    /\ UNCHANGED <<rc_ret, rc_max_depth, rc_last>>

\* camera.rs:220-222: the recursive call returned to a specular frame
RcReturnSpecular ==
    /\ UNCHANGED <<schedVars, pixelVars, bvhVars, mathVars>>
    /\ Len(rc_stack) > 0 /\ rc_ret # <<>>
    /\ TopFrame.stage = "specular"
    /\ LET result == SpecularColor(TopFrame.emitted, TopFrame.attenuation, rc_ret[1])
       IN  /\ rc_ret' = <<result>>
           /\ rc_last' = Finished("specular", TopFrame, TRUE, rc_ret[1], result)
    /\ rc_stack' = PopFrame
    /\ UNCHANGED <<rc_max_depth, rc_hits>>

\* camera.rs:242-252: the recursive call returned to a PdfRec frame
RcReturnPdf ==
    /\ UNCHANGED <<schedVars, pixelVars, bvhVars, mathVars>>
    /\ Len(rc_stack) > 0 /\ rc_ret # <<>>
    /\ TopFrame.stage = "pdf"
    /\ LET result == PdfColor(TopFrame.emitted, TopFrame.attenuation, TopFrame.spdf,
                              rc_ret[1], TopFrame.pdf_val)
       IN  /\ rc_ret' = <<result>>
           /\ rc_last' = Finished("pdf", TopFrame, TRUE, rc_ret[1], result)
    /\ rc_stack' = PopFrame
    /\ UNCHANGED <<rc_max_depth, rc_hits>>

InitColor == SchedIdle /\ PixelIdle /\ ColorInit /\ BvhIdle /\ MathIdle

NextColor ==
    \/ RcDepthExhausted
    \/ RcMiss
    \/ RcAbsorbed
    \/ RcScatterSpecular
    \/ RcScatterPdf
    \/ RcReturnSpecular
    \/ RcReturnPdf

SpecColor == InitColor /\ [][NextColor]_vars

MaxOf(a, b) == IF a > b THEN a ELSE b

\* C10: a call with depth <= 0 returns black without intersecting the scene;
\* every recursive call, specular or PDF, is made with depth - 1 (the i-th
\* nested call runs with max_ray_depth - (i - 1)); so at most max_ray_depth
\* scene intersections are made and the nesting never exceeds max_ray_depth.
C10_DepthBudget ==
    /\ \A i \in DOMAIN rc_stack :
          /\ rc_stack[i].depth = rc_max_depth - (i - 1)
          /\ (rc_stack[i].stage # "call" => rc_stack[i].depth >= 1)
    /\ rc_hits <= MaxOf(rc_max_depth, 0)
    /\ Len(rc_stack) <= MaxOf(rc_max_depth, 0) + 1
    /\ (rc_last # <<>> /\ rc_last.depth <= 0)
          => (rc_last.result = RZero /\ ~rc_last.hit /\ rc_last.kind = "exhausted")
    /\ (rc_last # <<>> /\ rc_last.hit) => rc_last.depth >= 1

\* the deepest nesting of a call with the largest depth: a specular and a PDF
\* bounce below a call that has run out of depth
C10_Witness ==
    /\ rc_max_depth = MaxRayDepth
    /\ Len(rc_stack) = rc_max_depth + 1
    /\ rc_hits = rc_max_depth
    /\ TopFrame.depth = 0
    /\ \E i \in DOMAIN rc_stack : rc_stack[i].stage = "specular"
    /\ \E i \in DOMAIN rc_stack : rc_stack[i].stage = "pdf"

\* C11: for depth >= 1, ray_color returns exactly the background when the ray
\* hits nothing, and exactly the emitted radiance of the material when the
\* nearest hit does not scatter; in both cases the activation returns from
\* where it started (stage "call"): it never suspended for a nested call.
C11_MissAndAbsorbed ==
    (rc_last # <<>> /\ rc_last.depth >= 1) =>
        /\ rc_last.kind = "miss" =>
              (rc_last.result = rc_last.background /\ rc_last.stage = "call")
        /\ rc_last.kind = "absorbed" =>
              (rc_last.result = rc_last.emitted /\ rc_last.stage = "call")

\* a nested call that missed the scene returned a non-black background to a
\* suspended parent
C11_Witness ==
    /\ rc_last # <<>>
    /\ rc_last.kind = "miss"
    /\ rc_last.depth >= 1
    /\ rc_last.result = <<1, 1>>
    /\ Len(rc_stack) >= 1
    /\ TopFrame.stage \in {"specular", "pdf"}

\* ---------------------------------------------------------------------------
\* Bounding volume hierarchy against the linear list (bvh.rs, hittable_list.rs,
\* aabb3.rs, rectangles.rs, hittable.rs).
\*
\* Lengths and ray parameters are integers in units of 0.0001, the padding of a
\* rectangle's bounding box: 20000 stands for 2.0 and 10 for 0.001.  Ray
\* directions have components +1 or -1, so every quotient by a direction
\* component is exact.  A vector is a triple <<x, y, z>>.
\* ---------------------------------------------------------------------------

\* longest list of primitives handed to BvhNode::new
MaxPrims == 3

\* types.rs:23  f32::INFINITY: larger than every ray parameter; only compared
C_INFINITY == 1000000000

\* rectangles.rs:49  the 0.0001 padding of a rectangle's box along its normal
RectPad == 1

\* camera.rs:216  the lower bound 0.001 that ray_color passes to world.hit
RayTMin == 10

\* Option<T>
None == [some |-> FALSE]
Some(x) == [some |-> TRUE, rec |-> x]

\* math/src/vec3.rs:517-522
dot(a, b) == a[1] * b[1] + a[2] * b[2] + a[3] * b[3]

Neg(a) == <<0 - a[1], 0 - a[2], 0 - a[3]>>

\* math/src/ray.rs:28-39  origin + t * direction
RayAt(r, t) ==
    <<r.origin[1] + t * r.direction[1],
      r.origin[2] + t * r.direction[2],
      r.origin[3] + t * r.direction[3]>>

\* types.rs:171-177
ffmin(a, b) == IF a < b THEN a ELSE b

\* types.rs:179-185
ffmax(a, b) == IF a > b THEN a ELSE b

\* aabb3.rs:12-17
AabbNew(min, max) == [min |-> min, max |-> max]

\* aabb3.rs:23-42  the loop of Aabb::hit from axis a on (a = 1, 2, 3)
RECURSIVE AabbHitFrom(_, _, _, _, _)
AabbHitFrom(box, r, a, tmin, tmax) ==
    IF a > 3 THEN TRUE
    ELSE LET inv_d == 1 \div r.direction[a]
             t0 == ffmin((box.min[a] - r.origin[a]) * inv_d,
                         (box.max[a] - r.origin[a]) * inv_d)
             t1 == ffmax((box.min[a] - r.origin[a]) * inv_d,
                         (box.max[a] - r.origin[a]) * inv_d)
             tmin2 == ffmax(t0, tmin)
             tmax2 == ffmin(t1, tmax)
         IN  IF tmax2 <= tmin2 THEN FALSE
             ELSE AabbHitFrom(box, r, a + 1, tmin2, tmax2)

\* aabb3.rs:19-45  Aabb::hit
Aabb_hit(box, r, tmin, tmax) == AabbHitFrom(box, r, 1, tmin, tmax)

merge_aabbs_left(a, b) == a

\* aabb3.rs:52-66
merge_aabbs(a, b) ==
    AabbNew(<<Min2(a.min[1], b.min[1]), Min2(a.min[2], b.min[2]),
              Min2(a.min[3], b.min[3])>>,
            <<MaxOf(a.max[1], b.max[1]), MaxOf(a.max[2], b.max[2]),
              MaxOf(a.max[3], b.max[3])>>)

\* hittable.rs:17-41  HitRecord::new
HitRecordNew(p, outward_normal, ray, t, mtl, u, v) ==
    LET front_face == dot(ray.direction, outward_normal) < 0
    IN  [p |-> p,
         normal |-> IF front_face THEN outward_normal ELSE Neg(outward_normal),
         t |-> t, mtl |-> mtl, front_face |-> front_face, u |-> u, v |-> v]

\* rectangles.rs:12-19, 83-90, 153-160  the three axis-aligned rectangles
XYRect(x0, x1, y0, y1, k, mtl) ==
    [kind |-> "XYRect", x0 |-> x0, x1 |-> x1, y0 |-> y0, y1 |-> y1,
     k |-> k, mtl |-> mtl]
XZRect(x0, x1, z0, z1, k, mtl) ==
    [kind |-> "XZRect", x0 |-> x0, x1 |-> x1, z0 |-> z0, z1 |-> z1,
     k |-> k, mtl |-> mtl]
YZRect(y0, y1, z0, z1, k, mtl) ==
    [kind |-> "YZRect", y0 |-> y0, y1 |-> y1, z0 |-> z0, z1 |-> z1,
     k |-> k, mtl |-> mtl]

\* rectangles.rs:22-45
XYRect_hit(self, r, t_min, t_max) ==
    LET t == (self.k - r.origin[3]) \div r.direction[3]
        x == r.origin[1] + t * r.direction[1]
        y == r.origin[2] + t * r.direction[2]
    IN  IF t < t_min \/ t > t_max THEN None
        ELSE IF x < self.x0 \/ x > self.x1 \/ y < self.y0 \/ y > self.y1
             THEN None
        ELSE Some(HitRecordNew(RayAt(r, t), <<0, 0, 1>>, r, t, self.mtl,
                               Rat(x - self.x0, self.x1 - self.x0),
                               Rat(y - self.y0, self.y1 - self.y0)))

\* rectangles.rs:47-52
XYRect_bounding_box(self) ==
    Some(AabbNew(<<self.x0, self.y0, self.k - RectPad>>,
                 <<self.x1, self.y1, self.k + RectPad>>))

\* rectangles.rs:93-116
XZRect_hit(self, r, t_min, t_max) ==
    LET t == (self.k - r.origin[2]) \div r.direction[2]
        x == r.origin[1] + t * r.direction[1]
        z == r.origin[3] + t * r.direction[3]
    IN  IF t < t_min \/ t > t_max THEN None
        ELSE IF x < self.x0 \/ x > self.x1 \/ z < self.z0 \/ z > self.z1
             THEN None
        ELSE Some(HitRecordNew(RayAt(r, t), <<0, 1, 0>>, r, t, self.mtl,
                               Rat(x - self.x0, self.x1 - self.x0),
                               Rat(z - self.z0, self.z1 - self.z0)))

\* rectangles.rs:118-123
XZRect_bounding_box(self) ==
    Some(AabbNew(<<self.x0, self.k - RectPad, self.z0>>,
                 <<self.x1, self.k + RectPad, self.z1>>))

\* rectangles.rs:163-186
YZRect_hit(self, r, t_min, t_max) ==
    LET t == (self.k - r.origin[1]) \div r.direction[1]
        y == r.origin[2] + t * r.direction[2]
        z == r.origin[3] + t * r.direction[3]
    IN  IF t < t_min \/ t > t_max THEN None
        ELSE IF y < self.y0 \/ y > self.y1 \/ z < self.z0 \/ z > self.z1
             THEN None
        ELSE Some(HitRecordNew(RayAt(r, t), <<1, 0, 0>>, r, t, self.mtl,
                               Rat(y - self.y0, self.y1 - self.y0),
                               Rat(z - self.z0, self.z1 - self.z0)))

\* rectangles.rs:188-193
YZRect_bounding_box(self) ==
    Some(AabbNew(<<self.k - RectPad, self.y0, self.z0>>,
                 <<self.k + RectPad, self.y1, self.z1>>))

\* hittable_list.rs:7-9 and flip_face.rs:5-7  the containers
HittableList(objects) == [kind |-> "HittableList", objects |-> objects]
FlipFace(obj) == [kind |-> "FlipFace", obj |-> obj]

RECURSIVE bounding_box(_)

\* hittable_list.rs:52-57  filter_map(bounding_box).reduce(merge_aabbs) from
\* object i on: None for a list without a bounded object
RECURSIVE ReduceBoxesFrom(_, _, _)
ReduceBoxesFrom(objects, i, accum_box) ==
    IF i > Len(objects) THEN accum_box
    ELSE LET this_box == bounding_box(objects[i])
         IN  ReduceBoxesFrom(objects, i + 1,
                 IF ~this_box.some THEN accum_box
                 ELSE IF ~accum_box.some THEN this_box
                 ELSE Some(merge_aabbs(accum_box.rec, this_box.rec)))

\* hittable_list.rs:52-57  HittableList::bounding_box
HittableList_bounding_box(objects) == ReduceBoxesFrom(objects, 1, None)

\* flip_face.rs:10-16  FlipFace::bounding_box
FlipFace_bounding_box(self) == bounding_box(self.obj)

\* hittable.rs:46 and bvh.rs:86-88  Hittable::bounding_box, by dynamic type
bounding_box(obj) ==
    CASE obj.kind = "BvhNode" -> Some(obj.bbox)
      [] obj.kind = "XYRect" -> XYRect_bounding_box(obj)
      [] obj.kind = "XZRect" -> XZRect_bounding_box(obj)
      [] obj.kind = "YZRect" -> YZRect_bounding_box(obj)
      [] obj.kind = "HittableList" -> HittableList_bounding_box(obj.objects)
      [] obj.kind = "FlipFace" -> FlipFace_bounding_box(obj)

\* bvh.rs:83  reduce(|a, b| if a.t < b.t { a } else { b }) over the chain of the
\* two optional hits: on equal t the right hit is kept
ReduceNearest(hit_left, hit_right) ==
    IF ~hit_left.some THEN hit_right
    ELSE IF ~hit_right.some THEN hit_left
    ELSE IF hit_left.rec.t < hit_right.rec.t THEN hit_left ELSE hit_right

RightTMax_loose(hit_left, t_max) == t_max

\* bvh.rs:73-77  the t_max handed to the right child: the left hit's t if the
\* left child was hit
RightTMax(hit_left, t_max) == IF hit_left.some THEN hit_left.rec.t ELSE t_max

FlipFront_keep(hit_rec) == hit_rec

\* flip_face.rs:24-27  HitRecord { front_face: !hit_rec.front_face, ..hit_rec }
FlipFront(hit_rec) == [hit_rec EXCEPT !.front_face = ~hit_rec.front_face]

RECURSIVE hit(_, _, _, _)
RECURSIVE MinByFrom(_, _, _, _, _, _)

\* flip_face.rs:18-28  FlipFace::hit
FlipFace_hit(self, r, t_min, t_max) ==
    LET inner == hit(self.obj, r, t_min, t_max)
    IN  IF inner.some THEN Some(FlipFront(inner.rec)) ELSE None

\* hittable.rs:45  Hittable::hit, by dynamic type; bvh.rs:58-84 for a BvhNode
hit(obj, r, t_min, t_max) ==
    CASE obj.kind = "XYRect" -> XYRect_hit(obj, r, t_min, t_max)
      [] obj.kind = "HittableList" ->
           MinByFrom(obj.objects, 1, None, r, t_min, t_max)
      [] obj.kind = "FlipFace" -> FlipFace_hit(obj, r, t_min, t_max)
      [] obj.kind = "XZRect" -> XZRect_hit(obj, r, t_min, t_max)
      [] obj.kind = "YZRect" -> YZRect_hit(obj, r, t_min, t_max)
      [] obj.kind = "BvhNode" ->
           IF ~Aabb_hit(obj.bbox, r, t_min, t_max) THEN None
           ELSE LET hit_left == hit(obj.left, r, t_min, t_max)
                    hit_right == hit(obj.right, r, t_min,
                                     RightTMax(hit_left, t_max))
                IN  ReduceNearest(hit_left, hit_right)

\* bvh.rs:58-84  BvhNode::hit
BvhNode_hit(self, r, t_min, t_max) == hit(self, r, t_min, t_max)

\* bvh.rs:65-78  the queries BvhNode::hit makes of its children, in order: none
\* when the ray misses the box, else the left child and then the right child,
\* each with the t_max it is handed and what it returns
BvhNode_hit_calls(self, r, t_min, t_max) ==
    IF ~Aabb_hit(self.bbox, r, t_min, t_max) THEN <<>>
    ELSE LET hit_left == hit(self.left, r, t_min, t_max)
             right_t_max == RightTMax(hit_left, t_max)
         IN  <<[child |-> "left", t_max |-> t_max, ret |-> hit_left],
               [child |-> "right", t_max |-> right_t_max,
                ret |-> hit(self.right, r, t_min, right_t_max)]>>

\* hittable_list.rs:43-49  the comparator handed to min_by: never Equal
CompareHits(hit_rec_a, hit_rec_b) ==
    IF hit_rec_a.t < hit_rec_b.t THEN "Less" ELSE "Greater"

\* hittable_list.rs:40-49  filter_map(..).min_by(..) from object i on; acc is
\* the minimum so far (None before the first hit).  Iterator::min_by keeps the
\* earlier element unless the comparator says Greater, and this comparator says
\* Greater on equal t: the later of two equally near hits is returned.
MinByFrom(objects, i, acc, r, t_min, t_max) ==
    IF i > Len(objects) THEN acc
    ELSE LET h == hit(objects[i], r, t_min, t_max)
             acc2 == IF ~h.some THEN acc
                     ELSE IF ~acc.some THEN h
                     ELSE IF CompareHits(acc.rec, h.rec) = "Greater" THEN h
                     ELSE acc
         IN  MinByFrom(objects, i + 1, acc2, r, t_min, t_max)

\* hittable_list.rs:39-50  HittableList::hit
HittableList_hit(objects, r, t_min, t_max) ==
    MinByFrom(objects, 1, None, r, t_min, t_max)

\* the outcome of a call that panicked
Panic == [kind |-> "panic"]

\* bvh.rs:91-100  box_compare: partial_cmp of the boxes' minima on the axis
\* (axis 0, 1, 2 is component 1, 2, 3 of a triple); expect() panics when
\* either element has no bounding box
box_compare(a, b, axis) ==
    IF ~bounding_box(a).some \/ ~bounding_box(b).some THEN "panic"
    ELSE LET box_a == bounding_box(a).rec
             box_b == bounding_box(b).rec
         IN  IF box_a.min[axis + 1] < box_b.min[axis + 1] THEN "Less"
             ELSE IF box_a.min[axis + 1] > box_b.min[axis + 1] THEN "Greater"
             ELSE "Equal"

\* bvh.rs:34  l.sort_by(cmp_fn): a stable sort; the last element is inserted
\* behind every element of the sorted rest that does not compare Greater.
\* The sort panics when a comparison does (every element of a slice of two or
\* more is compared at least once).
RECURSIVE sort_by(_, _)
sort_by(l, axis) ==
    IF Len(l) <= 1 THEN [panic |-> FALSE, l |-> l]
    ELSE LET rest == sort_by(SubSeq(l, 1, Len(l) - 1), axis)
             x == l[Len(l)]
         IN  IF rest.panic
                \/ \E i \in DOMAIN rest.l : box_compare(rest.l[i], x, axis) = "panic"
             THEN [panic |-> TRUE, l |-> <<>>]
             ELSE LET n == Cardinality({i \in DOMAIN rest.l :
                                   box_compare(rest.l[i], x, axis) # "Greater"})
                  IN  [panic |-> FALSE,
                       l |-> SubSeq(rest.l, 1, n) \o <<x>>
                                 \o SubSeq(rest.l, n + 1, Len(rest.l))]

\* aabb3.rs:71-72  f32::MAX (and f32::MIN, its negative): larger than every
\* coordinate, smaller than the infinity
F32_MAX == 900000000

AabbDefault_origin == AabbNew(<<0, 0, 0>>, <<0, 0, 0>>)

\* aabb3.rs:68-75  Aabb::default(): the empty box
AabbDefault ==
    AabbNew(<<F32_MAX, F32_MAX, F32_MAX>>, <<0 - F32_MAX, 0 - F32_MAX, 0 - F32_MAX>>)

NewNode_unchecked(left, right) ==
    LET or_default(opt) == IF opt.some THEN opt.rec ELSE AabbDefault
    IN  [kind |-> "BvhNode", left |-> left, right |-> right,
         bbox |-> merge_aabbs(or_default(bounding_box(left)),
                              or_default(bounding_box(right)))]

\* bvh.rs:43-54  the node over two children, with the merged bounding box; a
\* panic when a child has no bounding box
NewNode(left, right) ==
    IF ~bounding_box(left).some \/ ~bounding_box(right).some THEN Panic
    ELSE [kind |-> "BvhNode", left |-> left, right |-> right,
          bbox |-> merge_aabbs(bounding_box(left).rec, bounding_box(right).rec)]

\* a call of BvhNode::new that has ended: the node it returned (or Panic) and
\* the slice as the call left it
Built(node, l) == [node |-> node, l |-> l]

\* bvh.rs:16-55  BvhNode::new over a non-empty slice: the set of its outcomes
\* (a tree or a panic, with the slice afterwards), one comparison axis being
\* drawn at random (random_int(0, 2)) in every call.  l.sort_by sorts the
\* slice in place (bvh.rs:34) and the nested calls sort its two halves; a
\* sort that panics in a comparison leaves the elements in an unspecified
\* order.
RECURSIVE BvhNode_new(_)
BvhNode_new(l) ==
    UNION {
        IF Len(l) = 1 THEN {Built(NewNode(l[1], l[1]), l)}
        ELSE IF Len(l) = 2
        THEN LET c == box_compare(l[1], l[2], cmp_axis)
             IN  IF c = "panic" THEN {Built(Panic, l)}
                 ELSE IF c = "Less" THEN {Built(NewNode(l[1], l[2]), l)}
                 ELSE {Built(NewNode(l[2], l[1]), l)}
        ELSE LET sorted == sort_by(l, cmp_axis)
                 mid == Len(l) \div 2
             IN  IF sorted.panic THEN {Built(Panic, p) : p \in PermsOf(l)}
                 ELSE UNION {
                     IF left.node.kind = "panic"
                     THEN {Built(Panic, left.l \o SubSeq(sorted.l, mid + 1, Len(l)))}
                     ELSE {Built(IF right.node.kind = "panic" THEN Panic
                                 ELSE NewNode(left.node, right.node),
                                 left.l \o right.l) :
                              right \in BvhNode_new(SubSeq(sorted.l, mid + 1, Len(l)))}
                     : left \in BvhNode_new(SubSeq(sorted.l, 1, mid)) }
        : cmp_axis \in 0..2 }

\* the primitives the lists are drawn from: coplanar overlapping rectangles of
\* different materials, a rectangle whose corner lies on the diagonal rays,
\* rectangles in the other planes and at other distances, and an element
\* without a bounding box (an empty HittableList)
ScenePrims ==
    << XYRect(0, 40000, 0, 40000, 20000, 1),
       XYRect(0, 40000, 0, 40000, 20000, 2),
       XYRect(0, 20000, 20000, 40000, 20000, 1),
       XYRect(0, 40000, 0, 40000, 30000, 2),
       XZRect(0, 40000, 0, 40000, 25000, 1),
       YZRect(0, 40000, 0, 40000, 20000, 2),
       HittableList(<<>>) >>

\* every list of 1..MaxPrims primitives
PrimLists ==
    UNION {[1..n -> Range(ScenePrims)] : n \in 1..MaxPrims}

RayOrigins == {<<0, 0, 0>>, <<0, 0, 40000>>}
RayDirections == {-1, 1} \X {-1, 1} \X {-1, 1}
TMinValues == {RayTMin, 20000}
TMaxValues == {C_INFINITY, 20000}

BvhInit ==
    /\ bv_phase = "scene"
    /\ bv_list \in PrimLists
    /\ bv_ray \in [origin : RayOrigins, direction : RayDirections]
    /\ bv_tmin \in TMinValues
    /\ bv_tmax \in TMaxValues
    /\ bv_tree = <<>>
    /\ bv_hit = <<>>
    /\ bv_list_hit = <<>>
    /\ bv_calls = <<>>
    /\ bv_stack = <<>>

\* main.rs:715  BvhNode::new(boxlist.as_mut_slice(), ..)
BvhBuild ==
    /\ UNCHANGED <<schedVars, pixelVars, colorVars, mathVars>>
    /\ bv_phase = "scene"
    /\ \E out \in BvhNode_new(bv_list) :
          /\ bv_list' = out.l
          /\ IF out.node.kind = "panic"
             THEN bv_tree' = <<>> /\ bv_phase' = "panicked"
             ELSE bv_tree' = <<out.node>> /\ bv_phase' = "built"
    /\ UNCHANGED <<bv_ray, bv_tmin, bv_tmax, bv_hit, bv_list_hit, bv_calls, bv_stack>>

\* bvh.rs:58-84  the query of the built hierarchy
BvhQuery ==
    /\ UNCHANGED <<schedVars, pixelVars, colorVars, mathVars>>
    /\ bv_phase = "built" /\ bv_hit = <<>>
    /\ bv_hit' = <<BvhNode_hit(bv_tree[1], bv_ray, bv_tmin, bv_tmax)>>
    /\ bv_calls' = BvhNode_hit_calls(bv_tree[1], bv_ray, bv_tmin, bv_tmax)
    /\ UNCHANGED <<bv_phase, bv_list, bv_ray, bv_tmin, bv_tmax, bv_tree,
                   bv_list_hit, bv_stack>>

\* hittable_list.rs:39-50  the query of the list holding the same primitives
ListQuery ==
    /\ UNCHANGED <<schedVars, pixelVars, colorVars, mathVars>>
    /\ bv_phase \in {"scene", "built", "panicked"} /\ bv_list_hit = <<>>
    /\ bv_list_hit' = <<HittableList_hit(bv_list, bv_ray, bv_tmin, bv_tmax)>>
    /\ UNCHANGED <<bv_phase, bv_list, bv_ray, bv_tmin, bv_tmax, bv_tree,
                   bv_hit, bv_calls, bv_stack>>

InitBvh == SchedIdle /\ PixelIdle /\ ColorIdle /\ BvhInit /\ MathIdle

NextBvh ==
    \/ BvhBuild
    \/ BvhQuery
    \/ ListQuery

SpecBvh == InitBvh /\ [][NextBvh]_vars

SameHit(a, b) ==
    /\ a.some = b.some
    /\ a.some => /\ a.rec.t = b.rec.t
                 /\ a.rec.front_face = b.rec.front_face
                 /\ a.rec.mtl = b.rec.mtl

\* C1: for every non-empty list of primitives with bounding boxes and every
\* ray and interval, the BVH built over the list and the list itself agree:
\* both report no hit, or both report a hit with the same t, the same
\* front_face and the same material.
C1_BvhAgreesWithList ==
    (Len(bv_hit) = 1 /\ Len(bv_list_hit) = 1) => SameHit(bv_hit[1], bv_list_hit[1])

\* the builds alone: every list, the two rays from the origin along the
\* diagonal (towards the scene and away from it), with the interval ray_color
\* uses
BvhBuildInit ==
    /\ BvhInit
    /\ bv_ray \in [origin : {<<0, 0, 0>>}, direction : {<<1, 1, 1>>, <<-1, -1, -1>>}]
    /\ bv_tmin = RayTMin
    /\ bv_tmax = C_INFINITY

InitBvhBuild == SchedIdle /\ PixelIdle /\ ColorIdle /\ BvhBuildInit /\ MathIdle

SpecBvhBuild == InitBvhBuild /\ [][NextBvh]_vars

BuildReturned == bv_phase \in {"built", "panicked"}

Unbounded(obj) == ~bounding_box(obj).some

\* C16: for every slice of one or more elements in which some element has no
\* bounding box, BvhNode::new panics and never returns a node.
C16_MissingBoxPanics ==
    (BuildReturned /\ \E i \in DOMAIN bv_list : Unbounded(bv_list[i]))
        => (bv_phase = "panicked" /\ bv_tree = <<>>)

\* a slice of three whose last element alone has no bounding box
C16_Witness ==
    /\ bv_phase = "panicked"
    /\ Len(bv_list) = 3
    /\ ~Unbounded(bv_list[1]) /\ ~Unbounded(bv_list[2]) /\ Unbounded(bv_list[3])

\* the primitives (leaves) below a hittable of a tree
RECURSIVE Leaves(_)
Leaves(obj) ==
    IF obj.kind = "BvhNode" THEN Leaves(obj.left) \cup Leaves(obj.right)
    ELSE {obj}

BoxInside(inner, outer) ==
    \A a \in 1..3 : outer.min[a] <= inner.min[a] /\ inner.max[a] <= outer.max[a]

\* every node of the tree stores the component-wise minimum and maximum of
\* its children's boxes, and that box contains the box of every leaf below
RECURSIVE WellBoxed(_)
WellBoxed(obj) ==
    obj.kind = "BvhNode" =>
        LET lb == bounding_box(obj.left).rec
            rb == bounding_box(obj.right).rec
        IN  /\ \A a \in 1..3 :
                  /\ obj.bbox.min[a] = Min2(lb.min[a], rb.min[a])
                  /\ obj.bbox.max[a] = MaxOf(lb.max[a], rb.max[a])
            /\ \A leaf \in Leaves(obj) :
                  BoxInside(bounding_box(leaf).rec, obj.bbox)
            /\ bounding_box(obj) = Some(obj.bbox)
            /\ WellBoxed(obj.left)
            /\ WellBoxed(obj.right)

\* C17: in every tree returned by BvhNode::new the box stored in each node is
\* the merge of the boxes of its two children, so it contains the box of every
\* primitive of the subtree; and the tree (its boxes) is never changed after
\* the build, whatever is queried.
C17_NodeBoxIsMerge ==
    /\ [](bv_phase = "built" => WellBoxed(bv_tree[1]))
    /\ [][bv_phase = "built" => bv_tree' = bv_tree]_vars

\* a queried tree of three primitives whose root box is strictly larger than
\* the box of its left subtree
C17_Witness ==
    /\ bv_phase = "built"
    /\ Len(bv_list) = 3
    /\ Len(bv_hit) = 1
    /\ bv_tree[1].left.kind = "BvhNode"
    /\ bv_tree[1].right.kind = "BvhNode"
    /\ bv_tree[1].bbox # bv_tree[1].left.bbox
    /\ bv_tree[1].bbox # bv_tree[1].right.bbox

\* ---- the recursion of BvhNode::new, call by call ----
\*
\* The elements all have bounding boxes, so that no call panics, and a slice
\* is represented by its length, which alone decides the calls made.  bv_list
\* holds the slice of the outermost call, as a sequence of element numbers.

\* longest slice handed to the outermost call, and deepest call stack followed
MaxSliceLen == 12
MaxCallDepth == 6

\* a call of BvhNode::new on a slice of len elements, at the position pc
NewFrame(len) == [len |-> len, pc |-> "enter"]

\* the caller resumes after the call it made has returned
Resume(frame) ==
    [frame EXCEPT !.pc = IF frame.pc = "left" THEN "call_right" ELSE "build"]

\* the stack after its innermost call has returned
ReturnFrom(stack) ==
    IF Len(stack) = 1 THEN <<>>
    ELSE SubSeq(stack, 1, Len(stack) - 2) \o <<Resume(stack[Len(stack) - 1])>>

RecursionInit ==
    /\ bv_phase = "new"
    /\ bv_list \in {[i \in 1..n |-> i] : n \in 0..MaxSliceLen}
    /\ bv_ray = <<>>
    /\ bv_tmin = 0
    /\ bv_tmax = 0
    /\ bv_tree = <<>>
    /\ bv_hit = <<>>
    /\ bv_list_hit = <<>>
    /\ bv_calls = <<>>
    /\ bv_stack = <<NewFrame(Len(bv_list))>>

RecursionUnchanged ==
    /\ UNCHANGED <<schedVars, pixelVars, colorVars, mathVars>>
    /\ UNCHANGED <<bv_list, bv_ray, bv_tmin, bv_tmax, bv_tree, bv_hit, bv_list_hit,
                   bv_calls>>

\* bvh.rs:25-32, 43-54  a slice of one or two elements: the node is built and
\* returned without a nested call
NewLeafPair ==
    /\ RecursionUnchanged
    /\ bv_phase = "new" /\ bv_stack # <<>>
    /\ bv_stack[Len(bv_stack)].pc = "enter"
    /\ bv_stack[Len(bv_stack)].len \in {1, 2}
    /\ bv_stack' = ReturnFrom(bv_stack)
    /\ bv_phase' = IF bv_stack' = <<>> THEN "returned" ELSE "new"

\* bvh.rs:33-37  any other length: sort, mid = l.len() / 2, and the nested
\* call on l[..mid]
NewCallLeft ==
    /\ RecursionUnchanged
    /\ bv_phase = "new" /\ bv_stack # <<>>
    /\ Len(bv_stack) < MaxCallDepth
    /\ bv_stack[Len(bv_stack)].pc = "enter"
    /\ bv_stack[Len(bv_stack)].len \notin {1, 2}
    /\ bv_stack' = [bv_stack EXCEPT ![Len(bv_stack)].pc = "left"]
                       \o <<NewFrame(bv_stack[Len(bv_stack)].len \div 2)>>
    /\ UNCHANGED bv_phase

\* bvh.rs:38  the nested call on l[mid..]
NewCallRight ==
    /\ RecursionUnchanged
    /\ bv_phase = "new" /\ bv_stack # <<>>
    /\ Len(bv_stack) < MaxCallDepth
    /\ bv_stack[Len(bv_stack)].pc = "call_right"
    /\ bv_stack' = [bv_stack EXCEPT ![Len(bv_stack)].pc = "right"]
                       \o <<NewFrame(bv_stack[Len(bv_stack)].len
                                         - bv_stack[Len(bv_stack)].len \div 2)>>
    /\ UNCHANGED bv_phase

\* bvh.rs:43-54  both nested calls have returned: the node is built and returned
NewBuildNode ==
    /\ RecursionUnchanged
    /\ bv_phase = "new" /\ bv_stack # <<>>
    /\ bv_stack[Len(bv_stack)].pc = "build"
    /\ bv_stack' = ReturnFrom(bv_stack)
    /\ bv_phase' = IF bv_stack' = <<>> THEN "returned" ELSE "new"

InitBvhRecursion == SchedIdle /\ PixelIdle /\ ColorIdle /\ RecursionInit /\ MathIdle

NextBvhRecursion == NewLeafPair \/ NewCallLeft \/ NewCallRight \/ NewBuildNode

SpecBvhRecursion == InitBvhRecursion /\ [][NextBvhRecursion]_vars

\* the least k with 2^k >= n
RECURSIVE CeilLog2(_)
CeilLog2(n) == IF n <= 1 THEN 0 ELSE 1 + CeilLog2((n + 1) \div 2)

\* C27: BvhNode::new terminates on every finite slice: for a slice of n >= 1
\* bounded primitives the recursion is at most ceil(log2 n) + 1 calls deep, and
\* for an empty slice it stops instead of recursing without end.  Every nested
\* call works on a slice strictly shorter than its caller's (which is what
\* ends the recursion), also when the outermost slice is empty.
C27_NewTerminates ==
    bv_phase \in {"new", "returned"} =>
        /\ Len(bv_list) >= 1 => Len(bv_stack) <= CeilLog2(Len(bv_list)) + 1
        /\ \A d \in 2..Len(bv_stack) : bv_stack[d].len < bv_stack[d - 1].len

\* C22: in BvhNode::hit a ray that misses the node's box returns no hit
\* without querying either child; otherwise the left child is queried first
\* with the caller's t_max, then the right child with t_max replaced by the
\* left hit's t when the left child hit (the caller's t_max otherwise), and
\* the result is the hit with the smaller t, or the only hit present.
C22_LeftThenTightenedRight ==
    Len(bv_hit) = 1 =>
        IF ~Aabb_hit(bv_tree[1].bbox, bv_ray, bv_tmin, bv_tmax)
        THEN bv_calls = <<>> /\ bv_hit[1] = None
        ELSE /\ Len(bv_calls) = 2
             /\ bv_calls[1].child = "left" /\ bv_calls[1].t_max = bv_tmax
             /\ bv_calls[1].ret = hit(bv_tree[1].left, bv_ray, bv_tmin, bv_tmax)
             /\ bv_calls[2].child = "right"
             /\ bv_calls[2].t_max =
                    IF bv_calls[1].ret.some THEN bv_calls[1].ret.rec.t ELSE bv_tmax
             /\ bv_calls[2].ret =
                    hit(bv_tree[1].right, bv_ray, bv_tmin, bv_calls[2].t_max)
             /\ bv_hit[1].some = (bv_calls[1].ret.some \/ bv_calls[2].ret.some)
             /\ bv_hit[1].some =>
                    /\ bv_hit[1] \in {bv_calls[1].ret, bv_calls[2].ret}
                    /\ \A i \in 1..2 :
                          bv_calls[i].ret.some
                              => bv_hit[1].rec.t <= bv_calls[i].ret.rec.t

\* the left child is hit, the right child is queried up to the left hit's t
\* and is hit nearer, and the right hit is returned
C22_Witness ==
    /\ Len(bv_hit) = 1
    /\ Len(bv_calls) = 2
    /\ bv_calls[1].ret.some
    /\ bv_calls[2].t_max = bv_calls[1].ret.rec.t
    /\ bv_calls[2].t_max < bv_tmax
    /\ bv_calls[2].ret.some
    /\ bv_calls[2].ret.rec.t < bv_calls[1].ret.rec.t
    /\ bv_hit[1] = bv_calls[2].ret

\* C15: any hit record returned by a primitive's hit(ray, t_min, t_max) has a
\* ray parameter t with t_min < t <= t_max; an intersection at t = t_min or
\* below is never returned.  (The list returns the record of one of its
\* primitives, queried with the same interval.)
C15_HitInsideInterval ==
    (Len(bv_list_hit) = 1 /\ bv_list_hit[1].some)
        => (bv_tmin < bv_list_hit[1].rec.t /\ bv_list_hit[1].rec.t <= bv_tmax)

\* ---------------------------------------------------------------------------
\* Affine transform of a box (aabb3.rs:77-93, math/src/mat4.rs).
\*
\* A Mat4 is the sequence of its four rows, each a 4-tuple (the struct stores
\* a00 a01 a02 a03, a10 ..., row after row).  A Vec4 is <<x, y, z, w>>.  The
\* entries are integers, so every product and sum is exact.
\* ---------------------------------------------------------------------------

\* mat4.rs:337-348  Index<usize>: the 4 values starting at offset idx * 4 of
\* the row-major storage, i.e. row idx, as a Vec4
Mat4Index(m, idx) == m[idx + 1]

\* mat4.rs:131-149  Mat4::column: entries idx, idx + 4, idx + 8, idx + 12
Mat4Column(m, idx) == <<m[1][idx + 1], m[2][idx + 1], m[3][idx + 1], m[4][idx + 1]>>

\* mat4.rs:428-443  Mat4 * Vec4 (w is passed through)
Mat4MulVec4(m, rhs) ==
    <<m[1][1] * rhs[1] + m[1][2] * rhs[2] + m[1][3] * rhs[3] + m[1][4] * rhs[4],
      m[2][1] * rhs[1] + m[2][2] * rhs[2] + m[2][3] * rhs[3] + m[2][4] * rhs[4],
      m[3][1] * rhs[1] + m[3][2] * rhs[2] + m[3][3] * rhs[3] + m[3][4] * rhs[4],
      rhs[4]>>

\* Vec4 arithmetic (math::vec4): scalar product, sum, component-wise minimum
\* and maximum, and the xyz part
Vec4Scale(v, k) == <<v[1] * k, v[2] * k, v[3] * k, v[4] * k>>
Vec4Add(a, b) == <<a[1] + b[1], a[2] + b[2], a[3] + b[3], a[4] + b[4]>>
Vec4Min(a, b) ==
    <<Min2(a[1], b[1]), Min2(a[2], b[2]), Min2(a[3], b[3]), Min2(a[4], b[4])>>
Vec4Max(a, b) ==
    <<MaxOf(a[1], b[1]), MaxOf(a[2], b[2]), MaxOf(a[3], b[3]), MaxOf(a[4], b[4])>>
Vec4xyz(v) == <<v[1], v[2], v[3]>>

\* aabb3.rs:77-93  transform
transform(mat, aabb) ==
    LET xmin == Vec4Scale(Mat4Index(mat, 0), aabb.min[1])
        xmax == Vec4Scale(Mat4Index(mat, 0), aabb.max[1])
        ymin == Vec4Scale(Mat4Index(mat, 1), aabb.min[2])
        ymax == Vec4Scale(Mat4Index(mat, 1), aabb.max[2])
        zmin == Vec4Scale(Mat4Index(mat, 2), aabb.min[3])
        zmax == Vec4Scale(Mat4Index(mat, 2), aabb.max[3])
    IN  [min |-> Vec4xyz(Vec4Add(Vec4Add(Vec4Add(Vec4Min(xmin, xmax),
                                                  Vec4Min(ymin, ymax)),
                                          Vec4Min(zmin, zmax)),
                                  Mat4Column(mat, 3))),
         max |-> Vec4xyz(Vec4Add(Vec4Add(Vec4Add(Vec4Max(xmin, xmax),
                                                  Vec4Max(ymin, ymax)),
                                          Vec4Max(zmin, zmax)),
                                  Mat4Column(mat, 3)))]

\* rows of the linear part: axes, a reflected axis, a scaled axis and a shear
LinearRows == {<<1, 0, 0>>, <<0, 1, 0>>, <<0, 0, 1>>, <<0, -1, 0>>, <<2, 0, 0>>,
               <<1, 1, 0>>}
Translations == {<<0, 0, 0>>, <<1, -2, 3>>}

\* affine matrices: linear part and translation column, last row 0 0 0 1
AffineMatrices ==
    {<< <<r1[1], r1[2], r1[3], t[1]>>,
        <<r2[1], r2[2], r2[3], t[2]>>,
        <<r3[1], r3[2], r3[3], t[3]>>,
        <<0, 0, 0, 1>> >> :
        r1 \in LinearRows, r2 \in LinearRows, r3 \in LinearRows, t \in Translations}

\* boxes with min <= max on every axis
OrderedBoxes ==
    {AabbNew(mn, mx) : mn \in {<<0, 0, 0>>, <<-1, -2, 0>>},
                       mx \in {<<1, 1, 1>>, <<0, 2, 3>>}}

\* the 8 corners of a box
Corners(box) ==
    {<<x, y, z>> : x \in {box.min[1], box.max[1]},
                   y \in {box.min[2], box.max[2]},
                   z \in {box.min[3], box.max[3]}}

\* transform.rs:195  the image of a point under the matrix
PointImage(mat, p) == Vec4xyz(Mat4MulVec4(mat, <<p[1], p[2], p[3], 1>>))

BoxContains(box, p) ==
    \A a \in 1..3 : box.min[a] <= p[a] /\ p[a] <= box.max[a]

TransformInit ==
    /\ fn_name = "transform"
    /\ fn_args \in [mat : AffineMatrices, aabb : OrderedBoxes]
    /\ fn_ret = <<>>

\* transform.rs:178-182  Transform::bounding_box calls aabb3::transform
CallTransform ==
    /\ UNCHANGED <<schedVars, pixelVars, colorVars, bvhVars>>
    /\ fn_name = "transform" /\ fn_ret = <<>>
    /\ fn_ret' = <<transform(fn_args.mat, fn_args.aabb)>>
    /\ UNCHANGED <<fn_name, fn_args>>

InitTransform == SchedIdle /\ PixelIdle /\ ColorIdle /\ BvhIdle /\ TransformInit

NextTransform == CallTransform

SpecTransform == InitTransform /\ [][NextTransform]_vars

\* C12: for every affine matrix M and every box B with min <= max on each
\* axis, the box returned by transform(M, B) contains the image under M of each
\* of the 8 corners of B.
C12_TransformContainsCorners ==
    (fn_name = "transform" /\ Len(fn_ret) = 1) =>
        \A p \in Corners(fn_args.aabb) :
            BoxContains(fn_ret[1], PointImage(fn_args.mat, p))

\* ---------------------------------------------------------------------------
\* Roots of polynomials (math/src/polynomial.rs).
\*
\* The coefficients are small integers and a Float is an exact rational
\* <<numerator, denominator>>; the coefficients are drawn so that a positive
\* discriminant is a perfect square, whose square root is then exact.
\* ---------------------------------------------------------------------------

\* largest magnitude of a coefficient
MaxCoeff == 4

RInt(n) == <<n, 1>>
RNeg(a) == <<0 - a[1], a[2]>>
RSub(a, b) == RAdd(a, RNeg(b))
RLess(a, b) == a[1] * b[2] < b[1] * a[2]
RIsZero(a) == a[1] = 0

\* f32::signum: 1 for a positive number and +0.0, -1 for a negative one
RSignum(a) == IF a[1] >= 0 THEN RInt(1) ELSE RInt(-1)

\* f32::sqrt of a rational whose numerator and denominator are squares
RSqrt(a) == <<ISqrt(a[1]), ISqrt(a[2])>>

HasExactSqrt(a) ==
    /\ a[1] >= 0
    /\ ISqrt(a[1]) * ISqrt(a[1]) = a[1]
    /\ ISqrt(a[2]) * ISqrt(a[2]) = a[2]

poly_linear_nosign(a, b, roots) ==
    IF RIsZero(a) THEN [count |-> 0, roots |-> roots]
    ELSE [count |-> 1, roots |-> [roots EXCEPT ![1] = RDiv(b, a)]]

\* polynomial.rs:3-9  poly_linear: the root of a*x + b
poly_linear(a, b, roots) ==
    IF RIsZero(a) THEN [count |-> 0, roots |-> roots]
    ELSE [count |-> 1, roots |-> [roots EXCEPT ![1] = RDiv(RNeg(b), a)]]

\* polynomial.rs:18  b * b - 4 * a * c
Discriminant(a, b, c) == RSub(RMul(b, b), RMul(RMul(RInt(4), a), c))

\* polynomial.rs:20-21  -b / 2 * a, evaluated left to right: (-b / 2) * a
DoubleRoot(a, b) == RMul(RDiv(RNeg(b), RInt(2)), a)

\* polynomial.rs:11-39  poly_quadratic: the number of roots and the roots slice
poly_quadratic(a, b, c, roots) ==
    IF RIsZero(a) THEN poly_linear(b, c, roots)
    ELSE LET delta == Discriminant(a, b, c)
         IN  IF RIsZero(delta)
             THEN [count |-> 2, roots |-> <<DoubleRoot(a, b), DoubleRoot(a, b)>>]
             ELSE IF delta[1] > 0
             THEN LET q == RDiv(RNeg(RAdd(b, RMul(RSignum(b), RSqrt(delta)))),
                                RInt(2))
                      r0 == RDiv(q, a)
                      r1 == RDiv(c, q)
                  IN  [count |-> 2,
                       roots |-> IF RLess(r1, r0) THEN <<r1, r0>> ELSE <<r0, r1>>]
             ELSE [count |-> 0, roots |-> roots]

Coeffs == (0 - MaxCoeff)..MaxCoeff

\* the coefficient triples whose discriminant, when positive, has an exact root
QuadraticInputs ==
    {abc \in Coeffs \X Coeffs \X Coeffs :
        LET delta == Discriminant(RInt(abc[1]), RInt(abc[2]), RInt(abc[3]))
        IN  delta[1] <= 0 \/ HasExactSqrt(delta)}

QuadraticInit ==
    /\ fn_name = "poly_quadratic"
    /\ \E abc \in QuadraticInputs :
          fn_args = [a |-> RInt(abc[1]), b |-> RInt(abc[2]), c |-> RInt(abc[3]),
                     roots |-> <<RZero, RZero>>]
    /\ fn_ret = <<>>

\* cone.rs:53  poly_quadratic(a, b, c, &mut roots)
CallQuadratic ==
    /\ UNCHANGED <<schedVars, pixelVars, colorVars, bvhVars>>
    /\ fn_name = "poly_quadratic" /\ fn_ret = <<>>
    /\ fn_ret' = <<poly_quadratic(fn_args.a, fn_args.b, fn_args.c, fn_args.roots)>>
    /\ UNCHANGED <<fn_name, fn_args>>

InitQuadratic == SchedIdle /\ PixelIdle /\ ColorIdle /\ BvhIdle /\ QuadraticInit

NextQuadratic == CallQuadratic

SpecQuadratic == InitQuadratic /\ [][NextQuadratic]_vars

QuadraticReturned == fn_name = "poly_quadratic" /\ Len(fn_ret) = 1

\* a * t * t + b * t + c
PolyValue(a, b, c, t) == RAdd(RAdd(RMul(RMul(a, t), t), RMul(b, t)), c)

\* C13: for a # 0 and discriminant 0, poly_quadratic reports the double root
\* t = -b / (2a) as two equal values: count 2, both slots equal to -b / (2a).
C13_DoubleRoot ==
    (/\ QuadraticReturned
     /\ ~RIsZero(fn_args.a)
     /\ RIsZero(Discriminant(fn_args.a, fn_args.b, fn_args.c)))
        => /\ fn_ret[1].count = 2
           /\ fn_ret[1].roots[1] = RDiv(RNeg(fn_args.b), RMul(RInt(2), fn_args.a))
           /\ fn_ret[1].roots[2] = RDiv(RNeg(fn_args.b), RMul(RInt(2), fn_args.a))

\* C14: for a # 0 and discriminant > 0, two roots t0 <= t1 that both satisfy
\* a*t*t + b*t + c = 0; for a # 0 and discriminant < 0, no root; for a = 0 and
\* b # 0, exactly one root, -c / b.
C14_QuadraticRoots ==
    QuadraticReturned =>
        LET a == fn_args.a
            b == fn_args.b
            c == fn_args.c
            delta == Discriminant(a, b, c)
            ret == fn_ret[1]
        IN  /\ (~RIsZero(a) /\ delta[1] > 0) =>
                  /\ ret.count = 2
                  /\ ~RLess(ret.roots[2], ret.roots[1])
                  /\ RIsZero(PolyValue(a, b, c, ret.roots[1]))
                  /\ RIsZero(PolyValue(a, b, c, ret.roots[2]))
            /\ (~RIsZero(a) /\ delta[1] < 0) => ret.count = 0
            /\ (RIsZero(a) /\ ~RIsZero(b)) =>
                  (ret.count = 1 /\ ret.roots[1] = RDiv(RNeg(c), b))

\* two distinct roots of a polynomial with a leading coefficient other than
\* 1 and a negative b: 2x^2 - 3x + 1 = 0 at 1/2 and 1
C14_Witness ==
    /\ QuadraticReturned
    /\ fn_args.a = RInt(2) /\ fn_args.b = RInt(-3) /\ fn_args.c = RInt(1)
    /\ fn_ret[1].count = 2
    /\ fn_ret[1].roots = << <<1, 2>>, <<1, 1>> >>

\* ---------------------------------------------------------------------------
\* FlipFace (raytracer/src/flip_face.rs): a hittable wrapped so that the
\* front_face flag of its hits is negated.
\* ---------------------------------------------------------------------------

FlipFaceArgs ==
    [obj : Range(ScenePrims),
     r : [origin : RayOrigins, direction : RayDirections],
     t_min : TMinValues, t_max : TMaxValues]

FlipFaceInit ==
    /\ fn_name \in {"FlipFace::hit", "FlipFace::bounding_box"}
    /\ fn_args \in FlipFaceArgs
    /\ fn_ret = <<>>

\* flip_face.rs:18-28
CallFlipFaceHit ==
    /\ UNCHANGED <<schedVars, pixelVars, colorVars, bvhVars>>
    /\ fn_name = "FlipFace::hit" /\ fn_ret = <<>>
    /\ fn_ret' = <<FlipFace_hit(FlipFace(fn_args.obj), fn_args.r,
                                fn_args.t_min, fn_args.t_max)>>
    /\ UNCHANGED <<fn_name, fn_args>>

\* flip_face.rs:10-16
CallFlipFaceBoundingBox ==
    /\ UNCHANGED <<schedVars, pixelVars, colorVars, bvhVars>>
    /\ fn_name = "FlipFace::bounding_box" /\ fn_ret = <<>>
    /\ fn_ret' = <<FlipFace_bounding_box(FlipFace(fn_args.obj))>>
    /\ UNCHANGED <<fn_name, fn_args>>

InitFlipFace == SchedIdle /\ PixelIdle /\ ColorIdle /\ BvhIdle /\ FlipFaceInit

NextFlipFace == CallFlipFaceHit \/ CallFlipFaceBoundingBox

SpecFlipFace == InitFlipFace /\ [][NextFlipFace]_vars

\* the hit of the wrapped object for the arguments of the call
InnerHit == hit(fn_args.obj, fn_args.r, fn_args.t_min, fn_args.t_max)

\* C18: FlipFace::hit returns a hit exactly when the wrapped object does; the
\* record equals the wrapped object's in p, normal, t, mtl, u and v, and its
\* front_face is the negation; FlipFace::bounding_box returns the wrapped
\* object's bounding box.
C18_FlipFaceNegatesFrontFace ==
    /\ (fn_name = "FlipFace::hit" /\ Len(fn_ret) = 1) =>
          /\ fn_ret[1].some = InnerHit.some
          /\ InnerHit.some =>
                /\ fn_ret[1].rec.p = InnerHit.rec.p
                /\ fn_ret[1].rec.normal = InnerHit.rec.normal
                /\ fn_ret[1].rec.t = InnerHit.rec.t
                /\ fn_ret[1].rec.mtl = InnerHit.rec.mtl
                /\ fn_ret[1].rec.u = InnerHit.rec.u
                /\ fn_ret[1].rec.v = InnerHit.rec.v
                /\ fn_ret[1].rec.front_face = ~InnerHit.rec.front_face
    /\ (fn_name = "FlipFace::bounding_box" /\ Len(fn_ret) = 1) =>
          fn_ret[1] = bounding_box(fn_args.obj)

\* a rectangle hit on its front face, returned as a back-face hit
C18_Witness ==
    /\ fn_name = "FlipFace::hit"
    /\ Len(fn_ret) = 1
    /\ fn_ret[1].some
    /\ InnerHit.rec.front_face
    /\ ~fn_ret[1].rec.front_face

\* ---------------------------------------------------------------------------
\* Merging of boxes (raytracer/src/aabb3.rs:52-75).
\*
\* A coordinate of a box is a real number of the float type, anywhere from
\* f32::MIN to f32::MAX, the two ends included.
\* ---------------------------------------------------------------------------

\* the intervals lo <= hi of one axis
AxisIntervals(values) == {iv \in values \X values : iv[1] <= iv[2]}

\* boxes with min <= max on every axis
MergeBoxes ==
    {AabbNew(<<x[1], y[1], z[1]>>, <<x[2], y[2], z[2]>>) :
        x \in AxisIntervals({0 - F32_MAX, 0, 10000, F32_MAX}),
        y \in AxisIntervals({0, 10000}),
        z \in {<<0 - 10000, 0>>, <<0, 10000>>}}

MergeInit ==
    /\ fn_name = "merge_aabbs"
    /\ fn_args \in [a : MergeBoxes \cup {AabbDefault},
                    b : MergeBoxes \cup {AabbDefault},
                    c : MergeBoxes \cup {AabbDefault}]
    /\ fn_ret = <<>>

\* geometry_import.rs:513-515, hittable_list.rs:56  a step of a fold of boxes
CallMerge ==
    /\ UNCHANGED <<schedVars, pixelVars, colorVars, bvhVars>>
    /\ fn_name = "merge_aabbs" /\ fn_ret = <<>>
    /\ fn_ret' = <<merge_aabbs(fn_args.a, fn_args.b)>>
    /\ UNCHANGED <<fn_name, fn_args>>

InitMerge == SchedIdle /\ PixelIdle /\ ColorIdle /\ BvhIdle /\ MergeInit

NextMerge == CallMerge

SpecMerge == InitMerge /\ [][NextMerge]_vars

\* C19: merge_aabbs is commutative and associative, and merging any box B
\* that has min <= max on every axis with Aabb::default() yields B.
C19_MergeLaws ==
    (fn_name = "merge_aabbs" /\ Len(fn_ret) = 1) =>
        /\ fn_ret[1] = merge_aabbs(fn_args.b, fn_args.a)
        /\ merge_aabbs(fn_ret[1], fn_args.c)
              = merge_aabbs(fn_args.a, merge_aabbs(fn_args.b, fn_args.c))
        /\ (fn_args.a \in MergeBoxes /\ fn_args.b = AabbDefault)
              => fn_ret[1] = fn_args.a

\* a box that does not hold the origin and reaches f32::MAX on one axis was
\* merged with the empty box, and the merge returned the box
C19_Witness ==
    /\ fn_name = "merge_aabbs"
    /\ Len(fn_ret) = 1
    /\ fn_args.b = AabbDefault
    /\ fn_args.a \in MergeBoxes
    /\ fn_args.a.min[1] = 10000
    /\ fn_args.a.max[1] = F32_MAX
    /\ fn_args.c \in MergeBoxes
    /\ fn_ret[1] = fn_args.a

\* ---------------------------------------------------------------------------
\* Product of 4x4 matrices (math/src/mat4.rs:490-509).
\*
\* A matrix is the sequence of its 4 rows, the order of the row-major storage;
\* the entries are integers small enough for their products not to overflow.
\* ---------------------------------------------------------------------------

\* mat4.rs:252-264  Mat4::from_iter: the idx-th value goes to offset idx
Mat4FromIter(values) ==
    [row \in 1..4 |-> [col \in 1..4 |-> values[4 * (row - 1) + col]]]

\* mat4.rs:156-181  consts::null()
Mat4Null == Mat4FromIter([idx \in 1..16 |-> 0])

\* mat4.rs:183-194  consts::identity()
Mat4Identity ==
    [row \in 1..4 |-> [col \in 1..4 |-> IF row = col THEN 1 ELSE Mat4Null[row][col]]]

\* component idx of a Vec4 (math::vec4, Index<usize>)
Vec4Index(v, idx) == v[idx + 1]

Mat4Mul_byRows(self, rhs) ==
    [row \in 1..4 |-> [col \in 1..4 |->
        self[row][1] * rhs[col][1] + self[row][2] * rhs[col][2]
            + self[row][3] * rhs[col][3] + self[row][4] * rhs[col][4]]]

\* mat4.rs:499-503  the innermost loop: res[row][col] += self[row][k] * rhs[k][col]
\* for k = from..3, acc being res[row][col] before it
RECURSIVE MulAccumulate(_, _, _, _, _, _)
MulAccumulate(self, rhs, row, col, from, acc) ==
    IF from > 3 THEN acc
    ELSE MulAccumulate(self, rhs, row, col, from + 1,
                       acc + Vec4Index(Mat4Index(self, row), from)
                                * Vec4Index(Mat4Index(rhs, from), col))

\* mat4.rs:490-509  Mul for Mat4
Mat4Mul(self, rhs) ==
    [row \in 1..4 |-> [col \in 1..4 |->
        MulAccumulate(self, rhs, row - 1, col - 1, 0,
                      Vec4Index(Mat4Index(Mat4Null, row - 1), col - 1))]]

\* the 16 values first, first + 1, ...
Ramp(first) == [idx \in 1..16 |-> first + idx - 1]

\* the matrix with a single 1, in row r and column c
UnitMatrix(r, c) ==
    [row \in 1..4 |-> [col \in 1..4 |-> IF row = r /\ col = c THEN 1 ELSE 0]]

\* mat4.rs:622-623 (the ramps from 1 and from 17 of test_multiplication), two
\* more ramps, the identity and the 16 unit matrices
Matrices ==
    {Mat4FromIter(Ramp(first)) : first \in {-8, 0, 1, 17}}
        \cup {Mat4Identity}
        \cup {UnitMatrix(r, c) : r \in 1..4, c \in 1..4}

Mat4MulInit ==
    /\ fn_name = "Mat4::mul"
    /\ fn_args \in [self : Matrices, rhs : Matrices]
    /\ fn_ret = <<>>

\* mat4.rs:625  let res = m0 * m1
CallMat4Mul ==
    /\ UNCHANGED <<schedVars, pixelVars, colorVars, bvhVars>>
    /\ fn_name = "Mat4::mul" /\ fn_ret = <<>>
    /\ fn_ret' = <<Mat4Mul(fn_args.self, fn_args.rhs)>>
    /\ UNCHANGED <<fn_name, fn_args>>

InitMat4Mul == SchedIdle /\ PixelIdle /\ ColorIdle /\ BvhIdle /\ Mat4MulInit

NextMat4Mul == CallMat4Mul

SpecMat4Mul == InitMat4Mul /\ [][NextMat4Mul]_vars

\* C20: for all 4x4 integer matrices A and B stored row-major, the product
\* A * B has, in row r and column c, the sum over k = 0..3 of A[r][k] * B[k][c].
C20_ProductEntries ==
    (fn_name = "Mat4::mul" /\ Len(fn_ret) = 1) =>
        \A r \in 1..4, c \in 1..4 :
            fn_ret[1][r][c] =
                fn_args.self[r][1] * fn_args.rhs[1][c]
                    + fn_args.self[r][2] * fn_args.rhs[2][c]
                    + fn_args.self[r][3] * fn_args.rhs[3][c]
                    + fn_args.self[r][4] * fn_args.rhs[4][c]

\* mat4.rs:619-633  test_multiplication: the ramp from 1 times the ramp from 17
C20_Witness ==
    /\ fn_name = "Mat4::mul"
    /\ fn_args.self = Mat4FromIter(Ramp(1))
    /\ fn_args.rhs = Mat4FromIter(Ramp(17))
    /\ fn_ret = << << <<250, 260, 270, 280>>,
                      <<618, 644, 670, 696>>,
                      <<986, 1028, 1070, 1112>>,
                      <<1354, 1412, 1470, 1528>> >> >>

\* ---------------------------------------------------------------------------
\* Component selection of vectors (math/src/vec3.rs:756-775).
\* ---------------------------------------------------------------------------

\* vec3.rs:761-775  bmix: a component of x where a is true, of y otherwise
bmix(x, y, a) ==
    <<IF a[1] THEN x[1] ELSE y[1],
      IF a[2] THEN x[2] ELSE y[2],
      IF a[3] THEN x[3] ELSE y[3]>>

BmixInit ==
    /\ fn_name = "bmix"
    /\ fn_args \in [x : {0, 1} \X {0, 1} \X {0, 1},
                    y : {0, 1} \X {0, 1} \X {0, 1},
                    a : BOOLEAN \X BOOLEAN \X BOOLEAN]
    /\ fn_ret = <<>>

\* vec3.rs:761
CallBmix ==
    /\ UNCHANGED <<schedVars, pixelVars, colorVars, bvhVars>>
    /\ fn_name = "bmix" /\ fn_ret = <<>>
    /\ fn_ret' = <<bmix(fn_args.x, fn_args.y, fn_args.a)>>
    /\ UNCHANGED <<fn_name, fn_args>>

InitBmix == SchedIdle /\ PixelIdle /\ ColorIdle /\ BvhIdle /\ BmixInit

NextBmix == CallBmix

SpecBmix == InitBmix /\ [][NextBmix]_vars

\* C21: bmix(x, y, a) returns, for each component, the component of x where
\* the corresponding component of a is false and the component of y where it
\* is true.
C21_BmixSelects ==
    (fn_name = "bmix" /\ Len(fn_ret) = 1) =>
        \A i \in 1..3 :
            fn_ret[1][i] = IF fn_args.a[i] THEN fn_args.y[i] ELSE fn_args.x[i]

\* ---------------------------------------------------------------------------
\* Translate (raytracer/src/transform.rs:9-55): a hittable moved by an offset.
\* ---------------------------------------------------------------------------

\* transform.rs:9-12
Translate(obj, offset) == [kind |-> "Translate", obj |-> obj, offset |-> offset]

Vec3Add(a, b) == <<a[1] + b[1], a[2] + b[2], a[3] + b[3]>>
Vec3Sub(a, b) == <<a[1] - b[1], a[2] - b[2], a[3] - b[3]>>

\* transform.rs:34  Ray::new(r.origin - self.offset, r.direction, r.time)
TranslatedRay(self, r) ==
    [origin |-> Vec3Sub(r.origin, self.offset), direction |-> r.direction]

\* transform.rs:28-46  Translate::hit: the inner record is rebuilt by
\* HitRecord::new, which takes the inner record's normal as the outward normal
Translate_hit(self, r, t_min, t_max) ==
    LET translated_ray == TranslatedRay(self, r)
        inner == hit(self.obj, translated_ray, t_min, t_max)
    IN  IF inner.some
        THEN Some(HitRecordNew(Vec3Add(inner.rec.p, self.offset), inner.rec.normal,
                               translated_ray, inner.rec.t, inner.rec.mtl,
                               inner.rec.u, inner.rec.v))
        ELSE None

\* the wrapped objects: the primitives of the scene, bare and in a FlipFace
TranslateInit ==
    /\ fn_name = "Translate::hit"
    /\ fn_args \in
          [self : {Translate(obj, offset) :
                      obj \in Range(ScenePrims)
                                \cup {FlipFace(prim) : prim \in Range(ScenePrims)},
                      offset \in {<<0, 0, 0>>, <<10000, 0, -10000>>}},
           r : [origin : RayOrigins, direction : RayDirections],
           t_min : TMinValues, t_max : TMaxValues]
    /\ fn_ret = <<>>

\* transform.rs:28-46
CallTranslateHit ==
    /\ UNCHANGED <<schedVars, pixelVars, colorVars, bvhVars>>
    /\ fn_name = "Translate::hit" /\ fn_ret = <<>>
    /\ fn_ret' = <<Translate_hit(fn_args.self, fn_args.r, fn_args.t_min,
                                 fn_args.t_max)>>
    /\ UNCHANGED <<fn_name, fn_args>>

InitTranslate == SchedIdle /\ PixelIdle /\ ColorIdle /\ BvhIdle /\ TranslateInit

NextTranslate == CallTranslateHit

SpecTranslate == InitTranslate /\ [][NextTranslate]_vars

\* the hit of the wrapped object for the shifted ray of the call
TranslateInnerHit ==
    hit(fn_args.self.obj, TranslatedRay(fn_args.self, fn_args.r),
        fn_args.t_min, fn_args.t_max)

\* C23: Translate::hit returns the inner primitive's hit record for the
\* shifted ray with only the hit point moved by +offset: t, normal, material,
\* u, v and front_face are those of the inner record, so a back-face hit of
\* the inner primitive, or a front_face negated by an inner FlipFace, keeps
\* its front_face value through Translate.
C23_TranslateKeepsFrontFace ==
    (fn_name = "Translate::hit" /\ Len(fn_ret) = 1) =>
        /\ fn_ret[1].some = TranslateInnerHit.some
        /\ TranslateInnerHit.some =>
              /\ fn_ret[1].rec.p
                    = Vec3Add(TranslateInnerHit.rec.p, fn_args.self.offset)
              /\ fn_ret[1].rec.t = TranslateInnerHit.rec.t
              /\ fn_ret[1].rec.normal = TranslateInnerHit.rec.normal
              /\ fn_ret[1].rec.mtl = TranslateInnerHit.rec.mtl
              /\ fn_ret[1].rec.u = TranslateInnerHit.rec.u
              /\ fn_ret[1].rec.v = TranslateInnerHit.rec.v
              /\ fn_ret[1].rec.front_face = TranslateInnerHit.rec.front_face

\* ---------------------------------------------------------------------------
\* Samplers (raytracer/src/sampling.rs) and their use by raytrace_pixel
\* (raytracer/src/camera.rs:147-166).
\*
\* fn_args holds the arguments of SamplerBase::new and fn_ret the sampler it
\* returned (or the panic), which the draws then mutate.  A sample is named by
\* its index in the table (samples, disk_samples and hemisphere_samples hold
\* the same points, mapped); the values of the points play no part.  Two fields
\* of the record are history: read, the table the last draw read, and offsets,
\* the table indices sample_unit_square returned to raytrace_pixel.
\* ---------------------------------------------------------------------------

\* largest samples_per_pixel and largest number of sets
MaxSamplesPerPixel == 4
MaxSets == 2

\* sampling.rs:233-253  MultiJitteredSamplingStrategy::generate_samples: for
\* each set, a point for every i, j below n = floor(sqrt(samples_in_set))
generate_samples(sets, samples_in_set) ==
    LET n == ISqrt(samples_in_set)
    IN  [idx \in 1..(sets * n * n) |->
            [set |-> (idx - 1) \div (n * n),
             i |-> ((idx - 1) % (n * n)) \div n,
             j |-> ((idx - 1) % (n * n)) % n]]

\* sampling.rs:36-54  the table indices read and written by the two shuffles of
\* coordinates, whose inner loops run for i in 0..num_samples - 1:
\* i + p * num_samples + 1 and every possible random target
ShuffleIndices(num_samples, num_sets) ==
    IF num_samples < 2 THEN {}
    ELSE UNION {{i + p * num_samples + 1 : i \in 0..(num_samples - 2)}
                    \cup {target + p * num_samples : target \in 0..(num_samples - 1)}
                : p \in 0..(num_sets - 1)}

\* sampling.rs:56-65  shuffled_indices: for every set, a shuffle of 0..num_samples-1
RECURSIVE ShuffledIndexTables(_, _)
ShuffledIndexTables(num_samples, num_sets) ==
    IF num_sets = 0 THEN {<<>>}
    ELSE {perm \o rest :
            perm \in PermsOf([i \in 1..num_samples |-> i - 1]),
            rest \in ShuffledIndexTables(num_samples, num_sets - 1)}

\* sampling.rs:30-135  SamplerBase::new: the set of its outcomes, a panic when
\* a shuffle indexes past the end of the table
SamplerBase_new(num_samples, num_sets) ==
    LET samples == generate_samples(num_sets, num_samples)
    IN  IF \E idx \in ShuffleIndices(num_samples, num_sets) : idx >= Len(samples)
        THEN {Panic}
        ELSE {[kind |-> "sampler", samples |-> samples,
               shuffled_indices |-> tbl,
               sets |-> num_sets, samples_in_set |-> num_samples,
               count |-> 0, jump |-> 0, read |-> "", offsets |-> <<>>]
              : tbl \in ShuffledIndexTables(num_samples, num_sets)}

\* sampling.rs:138-141  the jump of a draw: redrawn, the start of a random set,
\* when count is a multiple of samples_in_set
Jumps(self) ==
    IF self.count % self.samples_in_set = 0
    THEN {set * self.samples_in_set : set \in 0..(self.sets - 1)}
    ELSE {self.jump}

\* sampling.rs:143-148 (and 157-162, 171-176)  the draw with the given jump
\* from the given table (samples, disk_samples or hemisphere_samples, of equal
\* length): the table index read, and the sampler after it
DrawWith(self, jump, table) ==
    LET at == jump + (self.count % self.samples_in_set)
    IN  IF at >= Len(self.shuffled_indices) THEN [panic |-> TRUE]
        ELSE LET idx == jump + self.shuffled_indices[at + 1]
             IN  IF idx >= Len(self.samples) THEN [panic |-> TRUE]
                 ELSE [panic |-> FALSE, idx |-> idx,
                       self |-> [self EXCEPT !.jump = jump, !.read = table,
                                             !.count = self.count + 1]]

SamplerInit ==
    /\ fn_name \in {"SamplerBase", "raytrace_pixel"}
    /\ fn_args \in [num_samples : 1..MaxSamplesPerPixel, num_sets : 1..MaxSets]
    /\ fn_ret = <<>>

\* main.rs:1324  MultiJitteredSampler::new(params.samples_per_pixel, ..)
SamplerNew ==
    /\ UNCHANGED <<schedVars, pixelVars, colorVars, bvhVars>>
    /\ fn_name \in {"SamplerBase", "raytrace_pixel"} /\ fn_ret = <<>>
    /\ \E out \in SamplerBase_new(fn_args.num_samples, fn_args.num_sets) :
          fn_ret' = <<out>>
    /\ UNCHANGED <<fn_name, fn_args>>

\* the effect of one draw on the sampler held in fn_ret
Draw(table, keep_offset) ==
    /\ Len(fn_ret) = 1 /\ fn_ret[1].kind = "sampler"
    /\ \E jump \in Jumps(fn_ret[1]) :
          LET d == DrawWith(fn_ret[1], jump, table)
          IN  fn_ret' =
                 IF d.panic THEN <<Panic>>
                 ELSE IF keep_offset
                      THEN <<[d.self EXCEPT !.offsets = Append(@, d.idx)]>>
                      ELSE <<d.self>>
    /\ UNCHANGED <<fn_name, fn_args>>

\* sampling.rs:137-149  a draw made by any caller
SampleUnitSquare ==
    /\ UNCHANGED <<schedVars, pixelVars, colorVars, bvhVars>>
    /\ fn_name = "SamplerBase"
    /\ Len(fn_ret) = 1 /\ fn_ret[1].kind = "sampler"
    /\ fn_ret[1].count < 2 * MaxSamplesPerPixel
    /\ Draw("samples", FALSE)

\* sampling.rs:151-163  a draw made by any caller
SampleUnitDisk ==
    /\ UNCHANGED <<schedVars, pixelVars, colorVars, bvhVars>>
    /\ fn_name = "SamplerBase"
    /\ Len(fn_ret) = 1 /\ fn_ret[1].kind = "sampler"
    /\ fn_ret[1].count < 2 * MaxSamplesPerPixel
    /\ Draw("disk_samples", FALSE)

\* sampling.rs:165-177  a draw made by any caller
SampleUnitHemisphere ==
    /\ UNCHANGED <<schedVars, pixelVars, colorVars, bvhVars>>
    /\ fn_name = "SamplerBase"
    /\ Len(fn_ret) = 1 /\ fn_ret[1].kind = "sampler"
    /\ fn_ret[1].count < 2 * MaxSamplesPerPixel
    /\ Draw("hemisphere_samples", FALSE)

\* camera.rs:159  raytrace_pixel, the offset of one of its samples_per_pixel
\* iterations: the sampler was drawn from 2 * (iterations so far) times
PixelOffset ==
    /\ UNCHANGED <<schedVars, pixelVars, colorVars, bvhVars>>
    /\ fn_name = "raytrace_pixel"
    /\ Len(fn_ret) = 1 /\ fn_ret[1].kind = "sampler"
    /\ fn_ret[1].count < 2 * fn_ret[1].samples_in_set
    /\ fn_ret[1].count % 2 = 0
    /\ Draw("samples", TRUE)

\* camera.rs:165, 85  get_ray_perspective of the same iteration draws the lens
\* sample from the same sampler
PixelGetRayPerspective ==
    /\ UNCHANGED <<schedVars, pixelVars, colorVars, bvhVars>>
    /\ fn_name = "raytrace_pixel"
    /\ Len(fn_ret) = 1 /\ fn_ret[1].kind = "sampler"
    /\ fn_ret[1].count % 2 = 1
    /\ Draw("disk_samples", FALSE)

InitSampler == SchedIdle /\ PixelIdle /\ ColorIdle /\ BvhIdle /\ SamplerInit

NextSampler ==
    \/ SamplerNew
    \/ SampleUnitSquare
    \/ SampleUnitDisk
    \/ SampleUnitHemisphere
    \/ PixelOffset
    \/ PixelGetRayPerspective

SpecSampler == InitSampler /\ [][NextSampler]_vars

\* C25: for every samples_per_pixel >= 1, perfect square or not, and every
\* set count >= 1, constructing a MultiJitteredSampler and then drawing any
\* number of unit-square and unit-disk samples never indexes outside the
\* sample table or the shuffled-index table: the generated table holds
\* sets * samples_in_set points.
C25_SamplerStaysInRange ==
    (fn_name \in {"SamplerBase", "raytrace_pixel"} /\ Len(fn_ret) = 1) =>
        /\ fn_ret[1].kind # "panic"
        /\ Len(fn_ret[1].samples) = fn_args.num_sets * fn_args.num_samples

\* C29: with N = samples_per_pixel and perspective projection, the N
\* unit-square offsets raytrace_pixel draws for one pixel are N distinct
\* entries of one single sample set.
C29_PixelUsesOneSet ==
    (fn_name = "raytrace_pixel" /\ Len(fn_ret) = 1 /\ fn_ret[1].kind = "sampler"
        /\ fn_ret[1].count = 2 * fn_ret[1].samples_in_set) =>
        /\ Len(fn_ret[1].offsets) = fn_ret[1].samples_in_set
        /\ Cardinality(Range(fn_ret[1].offsets)) = fn_ret[1].samples_in_set
        /\ \E set \in 0..(fn_ret[1].sets - 1) :
              \A idx \in Range(fn_ret[1].offsets) :
                  fn_ret[1].samples[idx + 1].set = set

\* ---------------------------------------------------------------------------
\* Cone (raytracer/src/cone.rs).
\*
\* The coordinates are exact rationals.  An angle of [0, 2 * pi] is held as
\* its quadrant (the number of whole quarter turns in it) and the squared
\* tangent of what remains, which orders angles exactly as their values do.
\* A hit is represented by its t and its point (the normal, u and v, which
\* take a square root and a division by phi_max, are left out).
\* ---------------------------------------------------------------------------

Angle(quadrant, tan2) == [quadrant |-> quadrant, tan2 |-> tan2]

\* types.rs:29  C_TWO_PI, the sweep Cone::unit(None, ..) takes (cone.rs:30)
C_TWO_PI == Angle(4, <<0, 1>>)

\* main.rs:921  330f32.to_radians(): three quarter turns and 60 degrees, whose
\* tangent squared is 3
Radians330 == Angle(3, <<3, 1>>)

\* a < b on angles
AngleLess(a, b) ==
    \/ a.quadrant < b.quadrant
    \/ a.quadrant = b.quadrant /\ a.tan2[1] * b.tan2[2] < b.tan2[1] * a.tan2[2]

\* cone.rs:12-17, 20-27
Cone(radius, height, phi_max) ==
    [kind |-> "Cone", radius |-> radius, height |-> height, phi_max |-> phi_max]

\* math/src/ray.rs:28-39  origin + t * direction, on rationals
RRayAt(r, t) ==
    <<RAdd(r.origin[1], RMul(t, r.direction[1])),
      RAdd(r.origin[2], RMul(t, r.direction[2])),
      RAdd(r.origin[3], RMul(t, r.direction[3]))>>

\* cone.rs:41-50  the coefficients of the intersection equation
ConeEquation(self, r) ==
    LET kk == RDiv(self.radius, self.height)
        k == RMul(kk, kk)
        dx == r.direction[1]
        dy == r.direction[2]
        dz == r.direction[3]
        ox == r.origin[1]
        oy == r.origin[2]
        oz == RSub(r.origin[3], self.height)
    IN  [a |-> RSub(RAdd(RMul(dx, dx), RMul(dy, dy)), RMul(RMul(k, dz), dz)),
         b |-> RMul(RInt(2), RSub(RAdd(RMul(dx, ox), RMul(dy, oy)),
                                   RMul(RMul(k, dz), oz))),
         c |-> RSub(RAdd(RMul(ox, ox), RMul(oy, oy)), RMul(RMul(k, oz), oz))]

\* cone.rs:70-74 (and 88-92)  phi = atan2(p.y, p.x), moved into [0, 2 * pi) by
\* adding 2 * pi when negative; atan2(0, 0) is 0
ConePhi(p) ==
    LET x == p[1]
        y == p[2]
        sq(v) == <<v[1] * v[1], v[2] * v[2]>>
    IN  IF x[1] > 0 /\ y[1] >= 0 THEN Angle(0, RDiv(sq(y), sq(x)))
        ELSE IF x[1] <= 0 /\ y[1] > 0 THEN Angle(1, RDiv(sq(x), sq(y)))
        ELSE IF x[1] < 0 /\ y[1] <= 0 THEN Angle(2, RDiv(sq(y), sq(x)))
        ELSE IF x[1] >= 0 /\ y[1] < 0 THEN Angle(3, RDiv(sq(x), sq(y)))
        ELSE Angle(0, <<0, 1>>)

\* cone.rs:77, 95  the clipping test of a point
ConeClipped(self, p) ==
    \/ RLess(p[3], RZero)
    \/ RLess(self.height, p[3])
    \/ AngleLess(self.phi_max, ConePhi(p))

\* cone.rs:35-119  Cone::hit; _t_min is not used
Cone_hit(self, r, t_min, t_max) ==
    LET eq == ConeEquation(self, r)
        solved == poly_quadratic(eq.a, eq.b, eq.c, <<RZero, RZero>>)
        t0 == solved.roots[1]
        t1 == solved.roots[2]
        thit == IF ~RLess(RZero, t0) THEN t1 ELSE t0
    IN  IF solved.count = 0 THEN None
        ELSE IF RLess(t_max, t0) \/ ~RLess(RZero, t1) THEN None
        ELSE IF RLess(t_max, thit) THEN None
        ELSE IF ~ConeClipped(self, RRayAt(r, thit))
             THEN Some([t |-> thit, p |-> RRayAt(r, thit)])
        ELSE IF thit = t1 THEN None
        ELSE IF RLess(t_max, t1) THEN None
        ELSE IF ConeClipped(self, RRayAt(r, t1)) THEN None
        ELSE Some([t |-> t1, p |-> RRayAt(r, t1)])

\* rays between lattice points, rays parallel to the axis through points of
\* the last quadrant (inside and outside a sweep of 330 degrees) and a ray
\* across the cone at half its height
\*
\* (ConeCalls) the cones of main.rs:914 and main.rs:921 and two of other
\* proportions, with the rays whose equation has a discriminant with an exact
\* square root when it is positive
ConeRays ==
    [origin : {<<RInt(x), RInt(y), RInt(z)>> : x \in -1..1, y \in -1..1, z \in -1..2},
     direction : {<<RInt(x), RInt(y), RInt(z)>> : x \in -1..1, y \in -1..1, z \in -1..1}]
        \cup {[origin |-> <<xy[1], xy[2], RInt(-1)>>,
               direction |-> <<RZero, RZero, RInt(1)>>] :
                  xy \in {<<<<12, 25>>, <<-7, 50>>>>, <<<<6, 13>>, <<-5, 26>>>>,
                          <<<<5, 26>>, <<-6, 13>>>>, <<<<-6, 13>>, <<-5, 26>>>>}}
        \cup {[origin |-> <<RInt(3), <<-7, 50>>, <<1, 2>>>>,
               direction |-> <<RInt(-1), RZero, RZero>>]}

ConeCalls ==
    {call \in [self : {Cone(RInt(1), RInt(1), C_TWO_PI),
                       Cone(RInt(1), RInt(1), Radians330),
                       Cone(RInt(1), RInt(2), C_TWO_PI),
                       Cone(RInt(2), RInt(1), C_TWO_PI)},
               r : ConeRays,
               t_min : {RZero}, t_max : {RInt(1), RInt(1000)}] :
        LET eq == ConeEquation(call.self, call.r)
            delta == Discriminant(eq.a, eq.b, eq.c)
        IN  RIsZero(eq.a) \/ delta[1] <= 0 \/ HasExactSqrt(delta)}

ConeInit ==
    /\ fn_name = "Cone::hit"
    /\ fn_args \in ConeCalls
    /\ fn_ret = <<>>

\* cone.rs:35-119
CallConeHit ==
    /\ UNCHANGED <<schedVars, pixelVars, colorVars, bvhVars>>
    /\ fn_name = "Cone::hit" /\ fn_ret = <<>>
    /\ fn_ret' = <<Cone_hit(fn_args.self, fn_args.r, fn_args.t_min, fn_args.t_max)>>
    /\ UNCHANGED <<fn_name, fn_args>>

InitCone == SchedIdle /\ PixelIdle /\ ColorIdle /\ BvhIdle /\ ConeInit

NextCone == CallConeHit

SpecCone == InitCone /\ [][NextCone]_vars

\* C26: for a cone whose intersection equation degenerates to the linear case
\* (a = 0, b # 0), when the single root t = -c/b satisfies 0 < t <= t_max and
\* the point at t passes the clipping tests, Cone::hit returns a hit at that t.
C26_LinearCaseHits ==
    (fn_name = "Cone::hit" /\ Len(fn_ret) = 1) =>
        LET eq == ConeEquation(fn_args.self, fn_args.r)
            t == RDiv(RNeg(eq.c), eq.b)
        IN  (/\ RIsZero(eq.a) /\ ~RIsZero(eq.b)
             /\ RLess(RZero, t) /\ ~RLess(fn_args.t_max, t)
             /\ ~ConeClipped(fn_args.self, RRayAt(fn_args.r, t)))
                => (fn_ret[1].some /\ fn_ret[1].rec.t = t)


(***************************************************************************)
(* The lights list: HittableList::pdf_value and HittableList::random, and  *)
(* the mixture density of ray_color that draws from them.                  *)
(***************************************************************************)

MaxLights == 2

\* a light of the list, by what its own pdf_value() and random() return
Light(pdf, dir) == [pdf |-> pdf, dir |-> dir]

LightObjects ==
    { Light(<<0, 1>>, <<0, 1, 0>>), Light(<<1, 1>>, <<1, 0, 0>>),
      Light(<<1, 2>>, <<0, 0, 1>>), Light(<<3, 1>>, <<0, -1, 0>>) }

LightLists == UNION { [1..n -> LightObjects] : n \in 0..MaxLights }

RECURSIVE FoldPdf(_, _, _, _)
FoldPdf(objects, weight, i, sum) ==
    IF i > Len(objects) THEN sum
    ELSE FoldPdf(objects, weight, i + 1, RAdd(sum, RMul(weight, objects[i].pdf)))

\* hittable_list.rs:59-69  HittableList::pdf_value
HittableList_pdf_value(objects) ==
    IF Len(objects) = 0 THEN <<0, 1>>
    ELSE FoldPdf(objects, RDiv(<<1, 1>>, <<Len(objects), 1>>), 1, <<0, 1>>)

\* a call that returned v (Panic is the call that did not)
Returned(v) == [kind |-> "value", value |-> v]

\* hittable_list.rs:72  (self.objects.len() - 1) as i32 on usize: with
\* overflow checks (the debug profile) 0 - 1 panics; without them it wraps to
\* usize::MAX, whose low 32 bits read as an i32 are -1
NumObjects(len, overflow_checks) ==
    IF len - 1 < 0 /\ overflow_checks THEN Panic ELSE Returned(len - 1)

\* types.rs:106-108  random_int(min, max) = gen_range(min, max + 1): the
\* values it may return; gen_range panics on an empty range
random_int(min, max) == IF min > max THEN {Panic} ELSE {Returned(i) : i \in min..max}

\* hittable_list.rs:74  self.objects[i as usize].random(v): the indexing
\* panics when i is not below the length
RandomOfObject(objects, i) ==
    IF i + 1 \in 1..Len(objects) THEN Returned(objects[i + 1].dir) ELSE Panic

\* hittable_list.rs:71-75  HittableList::random: the values it may return
HittableList_random(objects, overflow_checks) ==
    LET num_objects == NumObjects(Len(objects), overflow_checks)
    IN  IF num_objects = Panic THEN {Panic}
        ELSE { IF i = Panic THEN Panic ELSE RandomOfObject(objects, i.value) :
                   i \in random_int(0, num_objects.value) }

LightsInit ==
    /\ fn_name = "lights"
    /\ fn_args \in [objects : LightLists, overflow_checks : BOOLEAN]
    /\ fn_ret = <<>>

\* pdf.rs:47-50  HittablePdf::value on the lights
CallPdfValue ==
    /\ UNCHANGED <<schedVars, pixelVars, colorVars, bvhVars>>
    /\ fn_name = "lights" /\ fn_ret = <<>>
    /\ fn_name' = "pdf_value"
    /\ fn_ret' = <<Returned(HittableList_pdf_value(fn_args.objects))>>
    /\ UNCHANGED fn_args

\* pdf.rs:52-54  HittablePdf::generate on the lights
CallRandom ==
    /\ UNCHANGED <<schedVars, pixelVars, colorVars, bvhVars>>
    /\ fn_name = "lights" /\ fn_ret = <<>>
    /\ fn_name' = "random"
    /\ \E v \in HittableList_random(fn_args.objects, fn_args.overflow_checks) :
           fn_ret' = <<v>>
    /\ UNCHANGED fn_args

\* camera.rs:223-229, pdf.rs:72-78  ray_color's MixturePdf::generate: with
\* random_real() < 0.5 the direction comes from the lights, otherwise from the
\* material's density
CallMixtureGenerate ==
    /\ UNCHANGED <<schedVars, pixelVars, colorVars, bvhVars>>
    /\ fn_name = "lights" /\ fn_ret = <<>>
    /\ fn_name' = "generate"
    /\ \E from_lights \in BOOLEAN :
           IF from_lights
           THEN \E v \in HittableList_random(fn_args.objects, fn_args.overflow_checks) :
                    fn_ret' = <<v>>
           ELSE fn_ret' = <<Returned("material")>>
    /\ UNCHANGED fn_args

InitLights == SchedIdle /\ PixelIdle /\ ColorIdle /\ BvhIdle /\ LightsInit

NextLights == CallPdfValue \/ CallRandom \/ CallMixtureGenerate

SpecLights == InitLights /\ [][NextLights]_vars

\* C28: with an empty lights list nothing ray_color calls on it panics:
\* random() (directly or through the mixture's generate) returns without an
\* arithmetic underflow or an out-of-range access, as pdf_value() returns 0.
C28_EmptyLightsDoNotPanic ==
    (fn_name \in {"pdf_value", "random", "generate"} /\ fn_args.objects = <<>>) =>
        /\ fn_ret[1] # Panic
        /\ fn_name = "pdf_value" => fn_ret[1] = Returned(<<0, 1>>)


\* ---------------------------------------------------------------------------
\* det and is_invertible of a 4x4 matrix
\* ---------------------------------------------------------------------------

\* the field m.a<r><c> of a Mat4 (mat4.rs:10-30)
A(m, r, c) == m[r + 1][c + 1]

\* mat4.rs:514-539  det: the sum of the products k_i * l_i as the code forms them
det(m) ==
    LET k1 == A(m, 0, 0) * A(m, 1, 1) - A(m, 0, 1) * A(m, 1, 0)
        l1 == A(m, 2, 2) * A(m, 3, 3) - A(m, 2, 3) * A(m, 3, 2)
        k2 == A(m, 0, 0) * A(m, 1, 2) - A(m, 0, 2) * A(m, 1, 0)
        l2 == A(m, 2, 1) * A(m, 3, 3) - A(m, 1, 2) * A(m, 3, 1)
        k3 == A(m, 0, 0) * A(m, 1, 3) - A(m, 0, 3) * A(m, 1, 0)
        l3 == A(m, 2, 1) * A(m, 3, 2) - A(m, 2, 2) * A(m, 3, 1)
        k4 == A(m, 0, 1) * A(m, 1, 2) - A(m, 0, 2) * A(m, 1, 1)
        l4 == A(m, 2, 0) * A(m, 3, 3) - A(m, 3, 2) * A(m, 3, 0)
        k5 == A(m, 0, 1) * A(m, 1, 3) - A(m, 0, 3) * A(m, 1, 1)
        l5 == A(m, 2, 0) * A(m, 3, 2) - A(m, 2, 2) * A(m, 3, 0)
        k6 == A(m, 0, 2) * A(m, 1, 3) - A(m, 0, 3) * A(m, 1, 2)
        l6 == A(m, 2, 0) * A(m, 3, 1) - A(m, 2, 1) * A(m, 3, 0)
    IN  k1 * l1 - k2 * l2 + k3 * l3 + k4 * l4 - k5 * l5 + k6 * l6

\* mat4.rs:541-543  is_invertible
is_invertible(m) == det(m) # 0

\* the 2x2 minor of rows r0, r1 and columns c0, c1
Minor2(m, r0, r1, c0, c1) == A(m, r0, c0) * A(m, r1, c1) - A(m, r0, c1) * A(m, r1, c0)

\* the determinant of m by Laplace's theorem on rows 0-1: every minor of rows
\* 0-1 times the complementary minor of rows 2-3, with the sign of its columns
Determinant(m) ==
      Minor2(m, 0, 1, 0, 1) * Minor2(m, 2, 3, 2, 3)
    - Minor2(m, 0, 1, 0, 2) * Minor2(m, 2, 3, 1, 3)
    + Minor2(m, 0, 1, 0, 3) * Minor2(m, 2, 3, 1, 2)
    + Minor2(m, 0, 1, 1, 2) * Minor2(m, 2, 3, 0, 3)
    - Minor2(m, 0, 1, 1, 3) * Minor2(m, 2, 3, 0, 2)
    + Minor2(m, 0, 1, 2, 3) * Minor2(m, 2, 3, 0, 1)

\* every matrix of zeros and ones, and the affine ones (last row 0 0 0 1) with
\* a ramp in the first three rows
DetMatrices ==
    [1..4 -> [1..4 -> {0, 1}]]
        \cup {[row \in 1..4 |-> [col \in 1..4 |->
                  IF row = 4 THEN (IF col = 4 THEN 1 ELSE 0)
                  ELSE Mat4FromIter(Ramp(first))[row][col]]] : first \in {-8, 1, 17}}

DetInit ==
    /\ fn_name = "mat4"
    /\ fn_args \in [m : DetMatrices]
    /\ fn_ret = <<>>

\* mat4.rs:514  det(&m)
CallDet ==
    /\ UNCHANGED <<schedVars, pixelVars, colorVars, bvhVars>>
    /\ fn_name = "mat4" /\ fn_ret = <<>>
    /\ fn_name' = "det"
    /\ fn_ret' = <<det(fn_args.m)>>
    /\ UNCHANGED fn_args

\* mat4.rs:541  is_invertible(&m)
CallIsInvertible ==
    /\ UNCHANGED <<schedVars, pixelVars, colorVars, bvhVars>>
    /\ fn_name = "mat4" /\ fn_ret = <<>>
    /\ fn_name' = "is_invertible"
    /\ fn_ret' = <<is_invertible(fn_args.m)>>
    /\ UNCHANGED fn_args

InitDet == SchedIdle /\ PixelIdle /\ ColorIdle /\ BvhIdle /\ DetInit

NextDet == CallDet \/ CallIsInvertible

SpecDet == InitDet /\ [][NextDet]_vars

\* C30: for every 4x4 matrix, affine or not, det(m) is the determinant of m
\* (the Laplace expansion over rows 0-1 and rows 2-3), and is_invertible(m) is
\* true exactly when m is non-singular.
C30_DetIsDeterminant ==
    /\ fn_name = "det" => fn_ret[1] = Determinant(fn_args.m)
    /\ fn_name = "is_invertible" => (fn_ret[1] <=> Determinant(fn_args.m) # 0)

====
